---------------------------- MODULE Spec2Model ----------------------------
(***************************************************************************)
(* The experience knowledge base of Starriver-SuperBrain V2.3:             *)
(*   - ExperienceStore (app/routes/v2_3/experience.py): the identity map   *)
(*     _by_id, the fingerprint index _id_by_fp, add / update / delete;     *)
(*   - the candidate workflow handlers (add_candidate, approve, reject);   *)
(*   - the auto-candidate harvester and its config;                        *)
(*   - the telemetry substrate it reads and writes (LogBuffer, gauges of   *)
(*     Metrics in app/routes/v2_3/observability.py).                       *)
(*                                                                         *)
(* Representation choices:                                                 *)
(*   - a text (title, content) is a sequence of one-character strings, so  *)
(*     that strip() and lower() are computed, not assumed;                 *)
(*   - sha256 is modelled as an injective constructor <<"sha256", base>>   *)
(*     and its 16-character prefix as <<"sha256_16", parts>>;              *)
(*   - uuid4() yields <<"u", n>> with n a counter of identifiers handed    *)
(*     out so far, so that an identifier is never produced twice;          *)
(*   - None (and the empty string, which the code treats alike wherever    *)
(*     it tests "if not x") of an identifier or fingerprint is <<>>;       *)
(*   - timestamps are whole seconds of the clock `now`;                    *)
(*   - confidence and weight are counted in tenths (0.7 is 7);             *)
(*   - a Python dict keeps its keys in insertion order: by_id is the       *)
(*     mapping and by_id_keys the order of its keys;                       *)
(*   - the log ring is kept run-length encoded: a sequence of runs, each   *)
(*     an event with the number n of consecutive copies of it;             *)
(*   - of an event the ring keeps ts, level, message, module, tags and, of *)
(*     extra, the entry created (0 when extra has none); the               *)
(*     message and the tags of a handler's event are kept without the rule *)
(*     identifier the handler formats into them, and every request carries *)
(*     the same x-trace-id;                                                *)
(*   - a message, a tag and a log query are words; Chars spells the words  *)
(*     that a log search is asked about.                                   *)
(***************************************************************************)
EXTENDS Integers, Sequences, FiniteSets, TLC

VARIABLES
    by_id,      \* ExperienceStore._by_id : key -> rule
    by_id_keys, \* the keys of _by_id in the order the dict holds them
    id_by_fp,   \* ExperienceStore._id_by_fp : fingerprint -> key
    uuids,      \* number of uuid4() identifiers stored so far
    auto_cfg,   \* the process-wide ExperienceAutoCandidateConfig
    logs,       \* LogBuffer._buf, run-length encoded, oldest first
    gauges,     \* Metrics.gauges : name -> value
    now,        \* the wall clock, in seconds
    harvesting, \* per call of harvest_auto_candidates taken store call by store call: its locals
    counters,   \* Metrics.counters : name -> count
    lock,       \* ExperienceStore._lock : the thread that holds it, 0 when free
    threads     \* per thread that calls into the store or the telemetry: its locals

vars == <<by_id, by_id_keys, id_by_fp, uuids, auto_cfg, logs, gauges, now, harvesting,
          counters, lock, threads>>

\* what only the steps of the threads change
threadvars == <<counters, lock, threads>>

-----------------------------------------------------------------------------
(* Bounds of the model. *)

\* uuid4() identifiers the store may come to hold
MaxUuids == 2
\* bursts of other modules plus events of the harvester the log ring may hold
MaxRuns == 3
\* times the clock may jump
MaxTicks == 1
\* events the handlers of the review workflow may have in the log ring
MaxOwnEvents == 2
\* calls of inc a thread makes
MaxCalls == 4
\* calls of logs.add a thread makes
MaxAppends == 2
\* calls of update a thread makes
MaxUpdates == 1
\* rules in the store the threads update
MaxStored == 1

-----------------------------------------------------------------------------
(* Values. *)

None == <<>>

Min(a, b) == IF a < b THEN a ELSE b
Max(a, b) == IF a > b THEN a ELSE b

\* str.lower() on the words the model uses for statuses and levels
LowerWord(w) ==
    CASE w = "Draft" -> "draft"
      [] w = "Ops" -> "ops"
      [] w = "WARN" -> "warn"
      [] w = "ERROR" -> "error"
      [] w = "INFO" -> "info"
      [] OTHER -> w

\* str.lower() on one character of a text (a text built by the harvester holds
\* whole words as its elements)
LowerCh(c) ==
    CASE c = "A" -> "a"
      [] c = "B" -> "b"
      [] c = "X" -> "x"
      [] c = "T" -> "t"
      [] OTHER -> LowerWord(c)

\* str.lower()
Lower(s) == [i \in 1..Len(s) |-> LowerCh(s[i])]

IsSpace(c) == c \in {" ", "\t", "\n"}

RECURSIVE LStrip(_)
LStrip(s) == IF s # <<>> /\ IsSpace(Head(s)) THEN LStrip(Tail(s)) ELSE s

RECURSIVE RStrip(_)
RStrip(s) ==
    IF s # <<>> /\ IsSpace(s[Len(s)]) THEN RStrip(SubSeq(s, 1, Len(s) - 1)) ELSE s

\* str.strip()
Strip(s) == RStrip(LStrip(s))

\* str.strip() on the words the model uses for categories and statuses
StripWord(w) ==
    CASE w = " Draft " -> "Draft"
      [] w = " " -> ""
      [] OTHER -> w

\* Python's `x or d` on a word
OrWord(x, d) == IF x = "" THEN d ELSE x

\* Python's `sub in s` on texts
Contains(s, sub) ==
    \E i \in 0..(Len(s) - Len(sub)) : SubSeq(s, i + 1, i + Len(sub)) = sub

RECURSIVE JoinLower(_)
\* ",".join([t.lower() for t in tags])
JoinLower(tags) ==
    IF tags = <<>> THEN <<>>
    ELSE IF Len(tags) = 1 THEN Lower(tags[1])
    ELSE Lower(Head(tags)) \o <<",">> \o JoinLower(Tail(tags))

\* str(rule_id) of a path parameter rule_id: UUID.  An identifier is
\* <<"u", n>>, the lower-case text of a UUID, which is what str(uuid4()) and
\* str(UUID(text)) give, or <<"U", n>>, the same UUID written in upper case.
CanonicalId(id) == <<"u", id[2]>>

\* str.upper() on the words the model uses for levels
UpperWord(w) ==
    CASE w = "warn" -> "WARN"
      [] w = "error" -> "ERROR"
      [] w = "info" -> "INFO"
      [] OTHER -> w

-----------------------------------------------------------------------------
(* ExperienceStore. *)

\* ExperienceStore.make_fingerprint, with the separator dropped
make_fingerprint_nosep(title, content) ==
    <<"sha256", Lower(Strip(title)) \o Lower(Strip(content))>>

\* ExperienceStore.make_fingerprint
make_fingerprint(title, content) ==
    <<"sha256", Lower(Strip(title)) \o <<"\n">> \o Lower(Strip(content))>>

\* Python's `x or d` on an integer
OrInt(x, d) == IF x = 0 THEN d ELSE x

\* ExperienceRule.to_compact: the dict with the short keys
to_compact(rule) ==
    [id |-> rule.id, t |-> rule.title, c |-> rule.content, ctg |-> rule.category,
     tags |-> rule.tags, src |-> rule.sources, v |-> rule.version,
     cf |-> rule.confidence, w |-> rule.weight, s |-> rule.status,
     ca |-> rule.created_at, ua |-> rule.updated_at, fp |-> rule.fingerprint]

\* ExperienceRule.from_compact: every falsy value but id, ca, ua and fp is
\* replaced by the default of its field
from_compact(d) ==
    [id |-> d.id,
     title |-> d.t,
     content |-> d.c,
     category |-> OrWord(d.ctg, "general"),
     tags |-> d.tags,
     sources |-> d.src,
     version |-> OrWord(d.v, "v1"),
     confidence |-> OrInt(d.cf, 7),
     weight |-> OrInt(d.w, 10),
     status |-> OrWord(d.s, "active"),
     created_at |-> d.ca,
     updated_at |-> d.ua,
     fingerprint |-> d.fp]

\* ExperienceRule.ensure_ids that hands out one and the same identifier
ensure_ids_oneid(rule, uuid, t) ==
    [rule EXCEPT
        !.id = IF rule.id = None THEN <<"u", 1>> ELSE rule.id,
        !.created_at = IF rule.created_at = None THEN <<t>> ELSE rule.created_at,
        !.updated_at = <<t>>,
        !.fingerprint = IF rule.fingerprint = None
                        THEN make_fingerprint(rule.title, rule.content)
                        ELSE rule.fingerprint]

\* ExperienceRule.ensure_ids: uuid is the value uuid4() would return
ensure_ids(rule, uuid, t) ==
    [rule EXCEPT
        !.id = IF rule.id = None THEN uuid ELSE rule.id,
        !.created_at = IF rule.created_at = None THEN <<t>> ELSE rule.created_at,
        !.updated_at = <<t>>,
        !.fingerprint = IF rule.fingerprint = None
                        THEN make_fingerprint(rule.title, rule.content)
                        ELSE rule.fingerprint]

\* dict assignment d[k] = v
Put(d, k, v) == [x \in DOMAIN d \cup {k} |-> IF x = k THEN v ELSE d[x]]

\* dict.pop(k, None)
Pop(d, k) == [x \in DOMAIN d \ {k} |-> d[x]]

\* the key order of a dict after a call that left it as by and wrote the keys
\* of added, in that order: a key that stays keeps its place, a new key goes to
\* the end
KeysAfter(keys, by, added) ==
    SelectSeq(keys, LAMBDA k : k \in DOMAIN by)
        \o SelectSeq(added, LAMBDA k : k \in DOMAIN by /\ \A i \in 1..Len(keys) : keys[i] # k)

\* len(store._by_id)
Count(by) == Cardinality(DOMAIN by)

\* sum(1 for r in store.list_all() if (r.status or "").lower() == "draft")
DraftCount(by) == Cardinality({k \in DOMAIN by : LowerWord(by[k].status) = "draft"})

\* ExperienceStore.add without the dedup lookup
StoreAdd_nodedup(by, idx, rule0, dedup, upsert, uuid, t) ==
    LET rule == ensure_ids(rule0, uuid, t)
        fp == rule.fingerprint
        stored == IF upsert /\ rule.id \in DOMAIN by
                  THEN [rule EXCEPT !.created_at =
                            IF by[rule.id].created_at # None
                            THEN by[rule.id].created_at ELSE rule.created_at]
                  ELSE rule
    IN [raised |-> FALSE, ret |-> <<stored>>, stored |-> TRUE,
        by |-> Put(by, stored.id, stored), idx |-> Put(idx, fp, stored.id)]

\* ExperienceStore.add that stamps the rule anew when it replaces one
StoreAdd_newstamp(by, idx, rule0, dedup, upsert, uuid, t) ==
    LET rule == ensure_ids(rule0, uuid, t)
        fp == rule.fingerprint
    IN IF dedup /\ fp \in DOMAIN idx
       THEN IF idx[fp] \in DOMAIN by
            THEN [raised |-> FALSE, ret |-> <<by[idx[fp]]>>, stored |-> FALSE,
                  by |-> by, idx |-> idx]
            ELSE [raised |-> TRUE, ret |-> None, stored |-> FALSE,
                  by |-> by, idx |-> idx]
       ELSE [raised |-> FALSE, ret |-> <<rule>>, stored |-> TRUE,
             by |-> Put(by, rule.id, rule), idx |-> Put(idx, fp, rule.id)]

\* ExperienceStore.add: the state and the result it leaves.  raised is the
\* KeyError of self._by_id[ex_id] when the index names a key that is gone.
StoreAdd(by, idx, rule0, dedup, upsert, uuid, t) ==
    LET rule == ensure_ids(rule0, uuid, t)
        fp == rule.fingerprint
        stored == IF upsert /\ rule.id \in DOMAIN by
                  THEN [rule EXCEPT !.created_at =
                            IF by[rule.id].created_at # None
                            THEN by[rule.id].created_at ELSE rule.created_at]
                  ELSE rule
    IN IF dedup /\ fp \in DOMAIN idx
       THEN IF idx[fp] \in DOMAIN by
            THEN [raised |-> FALSE, ret |-> <<by[idx[fp]]>>, stored |-> FALSE,
                  by |-> by, idx |-> idx]
            ELSE [raised |-> TRUE, ret |-> None, stored |-> FALSE,
                  by |-> by, idx |-> idx]
       ELSE [raised |-> FALSE, ret |-> <<stored>>, stored |-> TRUE,
             by |-> Put(by, stored.id, stored), idx |-> Put(idx, fp, stored.id)]

\* data.update({k: v for k, v in patch.items() if v is not None}): a patch maps
\* field names to <<>> (None) or <<value>>
Patched(cur, patch) ==
    [f \in DOMAIN cur |->
        IF f \in DOMAIN patch /\ patch[f] # None THEN patch[f][1] ELSE cur[f]]

\* a JSON value that is not a string, sent for a field of type str
NotAString == "<number>"

\* whether ExperienceRule(**data) accepts the data: it raises a ValidationError
\* when a field of type str is given a value that is not a string
ValidRule(data) == data.status # NotAString

\* ExperienceStore.update that writes the patched data before it builds the rule
StoreUpdate_writefirst(by, idx, id, patch, t) ==
    IF id \notin DOMAIN by
    THEN [raised |-> TRUE, not_found |-> TRUE, ret |-> None, by |-> by, idx |-> idx]
    ELSE LET data == Patched(by[id], patch)
             upd == [data EXCEPT
                        !.updated_at = <<t>>,
                        !.fingerprint = make_fingerprint(data.title, data.content)]
         IN IF ~ValidRule(data)
            THEN [raised |-> TRUE, not_found |-> FALSE, ret |-> None,
                  by |-> Put(by, id, data), idx |-> idx]
            ELSE [raised |-> FALSE, not_found |-> FALSE, ret |-> <<upd>>,
                  by |-> Put(by, id, upd), idx |-> Put(idx, upd.fingerprint, id)]

\* ExperienceStore.update that drops the index entry of the fingerprint the
\* rule had before
StoreUpdate_dropstale(by, idx, id, patch, t) ==
    IF id \notin DOMAIN by
    THEN [raised |-> TRUE, not_found |-> TRUE, ret |-> None, by |-> by, idx |-> idx]
    ELSE LET data == Patched(by[id], patch)
             upd == [data EXCEPT
                        !.updated_at = <<t>>,
                        !.fingerprint = make_fingerprint(data.title, data.content)]
         IN IF ~ValidRule(data)
            THEN [raised |-> TRUE, not_found |-> FALSE, ret |-> None,
                  by |-> by, idx |-> idx]
            ELSE [raised |-> FALSE, not_found |-> FALSE, ret |-> <<upd>>,
                  by |-> Put(by, id, upd),
                  idx |-> Put(Pop(idx, by[id].fingerprint), upd.fingerprint, id)]

\* ExperienceStore.update: raised with not_found is KeyError("not_found"),
\* raised without it the ValidationError of ExperienceRule(**data)
StoreUpdate(by, idx, id, patch, t) ==
    IF id \notin DOMAIN by
    THEN [raised |-> TRUE, not_found |-> TRUE, ret |-> None, by |-> by, idx |-> idx]
    ELSE LET data == Patched(by[id], patch)
             upd == [data EXCEPT
                        !.updated_at = <<t>>,
                        !.fingerprint = make_fingerprint(data.title, data.content)]
         IN IF ~ValidRule(data)
            THEN [raised |-> TRUE, not_found |-> FALSE, ret |-> None,
                  by |-> by, idx |-> idx]
            ELSE [raised |-> FALSE, not_found |-> FALSE, ret |-> <<upd>>,
                  by |-> Put(by, id, upd), idx |-> Put(idx, upd.fingerprint, id)]

\* ExperienceStore.delete that drops the index entry whatever key it names
StoreDelete_popalways(by, idx, id) ==
    IF id \notin DOMAIN by
    THEN [ret |-> FALSE, by |-> by, idx |-> idx]
    ELSE LET cur == by[id]
             fp == IF cur.fingerprint # None THEN cur.fingerprint
                   ELSE make_fingerprint(cur.title, cur.content)
         IN [ret |-> TRUE, by |-> Pop(by, id), idx |-> Pop(idx, fp)]

\* ExperienceStore.delete: ret is the boolean it returns
StoreDelete(by, idx, id) ==
    IF id \notin DOMAIN by
    THEN [ret |-> FALSE, by |-> by, idx |-> idx]
    ELSE LET cur == by[id]
             fp == IF cur.fingerprint # None THEN cur.fingerprint
                   ELSE make_fingerprint(cur.title, cur.content)
         IN [ret |-> TRUE, by |-> Pop(by, id),
             idx |-> IF fp \in DOMAIN idx /\ idx[fp] = id THEN Pop(idx, fp) ELSE idx]

\* ExperienceStore.get: None for a key the store does not hold
StoreGet(by, id) == IF id \in DOMAIN by THEN <<by[id]>> ELSE None

\* ExperienceStore.list_all: the rules in the order the dict holds them
list_all(by, keys) == [i \in 1..Len(keys) |-> by[keys[i]]]

\* largest number of rules a search returns
RulesSearchMaxLimit == 200

\* the score ExperienceStore.search gives a rule, times 20: confidence and weight
\* are tenths, so 0.5 * confidence is confidence / 20 and 2.0 is 40
Score(r, ql) ==
    (IF ql # <<>> /\ Contains(Lower(r.title), ql) THEN 40 ELSE 0)
        + (IF ql # <<>> /\ Contains(Lower(r.content), ql) THEN 20 ELSE 0)
        + r.confidence + r.weight

\* the filters of ExperienceStore.search without the one on the status
Kept_anystatus(r, ql, tagl, catl, stl) ==
    /\ catl # "" => LowerWord(r.category) = catl
    /\ tagl # <<>> => Contains(JoinLower(r.tags), tagl)
    /\ ql # <<>> => Contains(Lower(r.title), ql) \/ Contains(Lower(r.content), ql)

\* whether the loop of ExperienceStore.search appends the rule r to res
Kept(r, ql, tagl, catl, stl) ==
    /\ catl # "" => LowerWord(r.category) = catl
    /\ stl # "" => LowerWord(r.status) = stl
    /\ tagl # <<>> => Contains(JoinLower(r.tags), tagl)
    /\ ql # <<>> => Contains(Lower(r.title), ql) \/ Contains(Lower(r.content), ql)

RECURSIVE InsertByScore_beforeties(_, _)
\* insert e before the first entry whose score is not greater
InsertByScore_beforeties(sorted, e) ==
    IF sorted = <<>> THEN <<e>>
    ELSE IF Head(sorted).score > e.score
    THEN <<Head(sorted)>> \o InsertByScore_beforeties(Tail(sorted), e)
    ELSE <<e>> \o sorted

RECURSIVE InsertByScore(_, _)
\* insert e behind every entry whose score is not smaller
InsertByScore(sorted, e) ==
    IF sorted = <<>> THEN <<e>>
    ELSE IF Head(sorted).score >= e.score
    THEN <<Head(sorted)>> \o InsertByScore(Tail(sorted), e)
    ELSE <<e>> \o sorted

RECURSIVE SortByScore(_, _)
\* res.sort(key=lambda x: x[0], reverse=True): stable
SortByScore(res, acc) ==
    IF res = <<>> THEN acc ELSE SortByScore(Tail(res), InsertByScore(acc, Head(res)))

\* ExperienceStore.search that compares the text as the caller wrote it
search_rawquery(by, keys, q, tag, category, status, limit) ==
    LET ql == Strip(q)
        tagl == Lower(Strip(tag))
        catl == LowerWord(StripWord(category))
        stl == LowerWord(StripWord(status))
        kept == SelectSeq(list_all(by, keys), LAMBDA r : Kept(r, ql, tagl, catl, stl))
        res == [i \in 1..Len(kept) |-> [score |-> Score(kept[i], ql), rule |-> kept[i]]]
        sorted == SortByScore(res, <<>>)
        m == Max(1, Min(limit, RulesSearchMaxLimit))
    IN [i \in 1..Min(m, Len(sorted)) |-> sorted[i].rule]

\* ExperienceStore.search(q=, tag=, category=, status=, limit=): the rules it
\* returns.  q and tag are texts, category and status words; None and the empty
\* word stand for an argument left out.
search(by, keys, q, tag, category, status, limit) ==
    LET ql == Lower(Strip(q))
        tagl == Lower(Strip(tag))
        catl == LowerWord(StripWord(category))
        stl == LowerWord(StripWord(status))
        kept == SelectSeq(list_all(by, keys), LAMBDA r : Kept(r, ql, tagl, catl, stl))
        res == [i \in 1..Len(kept) |-> [score |-> Score(kept[i], ql), rule |-> kept[i]]]
        sorted == SortByScore(res, <<>>)
        m == Max(1, Min(limit, RulesSearchMaxLimit))
    IN [i \in 1..Min(m, Len(sorted)) |-> sorted[i].rule]

RECURSIVE ImportLoop_stopatraise(_, _, _, _, _)
\* the loop of ExperienceStore.import_items without the try: the first item
\* whose add raises ends the batch
ImportLoop_stopatraise(items, upsert, dedup, st, t) ==
    IF items = <<>> THEN st
    ELSE LET it == Head(items)
             r == StoreAdd(st.by, st.idx, it, dedup, upsert, <<"u", st.uuids + 1>>, t)
         IN IF r.raised
            THEN [st EXCEPT !.dup = @ + 1]
            ELSE ImportLoop_stopatraise(Tail(items), upsert, dedup,
                    [by |-> r.by,
                     keys |-> KeysAfter(st.keys, r.by,
                                        IF r.stored THEN <<r.ret[1].id>> ELSE <<>>),
                     idx |-> r.idx,
                     uuids |-> IF r.stored /\ it.id = None THEN st.uuids + 1 ELSE st.uuids,
                     ok |-> st.ok + 1,
                     dup |-> st.dup], t)

RECURSIVE ImportLoop(_, _, _, _, _)
\* the loop of ExperienceStore.import_items over the items left: st carries the
\* store, the identifiers used, ok and dup
ImportLoop(items, upsert, dedup, st, t) ==
    IF items = <<>> THEN st
    ELSE LET it == Head(items)
             r == StoreAdd(st.by, st.idx, it, dedup, upsert, <<"u", st.uuids + 1>>, t)
         IN IF r.raised
            THEN ImportLoop(Tail(items), upsert, dedup, [st EXCEPT !.dup = @ + 1], t)
            ELSE ImportLoop(Tail(items), upsert, dedup,
                    [by |-> r.by,
                     keys |-> KeysAfter(st.keys, r.by,
                                        IF r.stored THEN <<r.ret[1].id>> ELSE <<>>),
                     idx |-> r.idx,
                     uuids |-> IF r.stored /\ it.id = None THEN st.uuids + 1 ELSE st.uuids,
                     ok |-> st.ok + 1,
                     dup |-> st.dup], t)

\* ExperienceStore.import_items(items, upsert=, dedup=): the pair (ok, dup) it
\* returns and the state it leaves; n is the number of uuids stored so far
import_items(by, keys, idx, n, items, upsert, dedup, t) ==
    ImportLoop(items, upsert, dedup,
               [by |-> by, keys |-> keys, idx |-> idx, uuids |-> n, ok |-> 0, dup |-> 0], t)

-----------------------------------------------------------------------------
(* Telemetry: LogBuffer and the gauges of Metrics. *)

\* logs = LogBuffer(maxlen=2000)
LogMaxLen == 2000
\* the limit clamp of LogBuffer.search: max(1, min(limit, 200))
SearchMaxLimit == 200
\* MAX_RANGE_SECONDS of LogBuffer.search
MaxRangeSeconds == 365 * 24 * 3600
\* the limit the harvester passes to LogBuffer.search
HarvestLimit == 1000

\* the x-trace-id header of a request
TraceId == "tid"

SameEvent(r, e) ==
    /\ r.level = e.level
    /\ r.module = e.module
    /\ r.message = e.message
    /\ r.tags = e.tags
    /\ r.created = e.created
    /\ r.ts = e.ts

RECURSIVE LogLen(_)
\* len(self._buf)
LogLen(buf) == IF buf = <<>> THEN 0 ELSE Head(buf).n + LogLen(Tail(buf))

\* a deque without maxlen: nothing leaves
DropOldest_none(buf, d) == buf

RECURSIVE DropOldest(_, _)
\* what deque(maxlen) does on overflow: the d oldest events leave
DropOldest(buf, d) ==
    IF d <= 0 \/ buf = <<>> THEN buf
    ELSE IF Head(buf).n <= d THEN DropOldest(Tail(buf), d - Head(buf).n)
    ELSE <<[Head(buf) EXCEPT !.n = @ - d]>> \o Tail(buf)

\* k appends to a deque that, when full, overwrites its newest event
Push_overwrite(buf, e, k, maxlen) ==
    LET run == [level |-> e.level, module |-> e.module, message |-> e.message,
                tags |-> e.tags, created |-> e.created, ts |-> e.ts, n |-> k]
        room == IF LogLen(buf) + k <= maxlen THEN buf
                ELSE IF buf[Len(buf)].n <= k THEN SubSeq(buf, 1, Len(buf) - 1)
                ELSE [buf EXCEPT ![Len(buf)].n = @ - k]
    IN Append(room, run)

\* k appends of the event e to a deque of maximal length maxlen
Push(buf, e, k, maxlen) ==
    LET run == [level |-> e.level, module |-> e.module, message |-> e.message,
                tags |-> e.tags, created |-> e.created, ts |-> e.ts, n |-> k]
        joined == IF buf # <<>> /\ SameEvent(buf[Len(buf)], e)
                  THEN [buf EXCEPT ![Len(buf)].n = @ + k]
                  ELSE Append(buf, run)
    IN DropOldest(joined, LogLen(joined) - maxlen)

\* LogBuffer.add(level, message, module=, tags=, extra={"created": created, ..}),
\* called k times in a row at time t
LogBufferAddExtra(buf, level, message, module, tags, created, k, t) ==
    Push(buf,
         [level |-> UpperWord(level), module |-> module, message |-> message,
          tags |-> tags, created |-> created, ts |-> t],
         k, LogMaxLen)

\* LogBuffer.add with an extra that has no entry created
LogBufferAdd(buf, level, message, module, tags, k, t) ==
    LogBufferAddExtra(buf, level, message, module, tags, 0, k, t)

RECURSIVE TakeEvents(_, _)
\* the first m events of a run-length encoded sequence
TakeEvents(runs, m) ==
    IF m <= 0 \/ runs = <<>> THEN <<>>
    ELSE IF Head(runs).n >= m THEN <<[Head(runs) EXCEPT !.n = m]>>
    ELSE <<Head(runs)>> \o TakeEvents(Tail(runs), m - Head(runs).n)

Reverse(s) == [i \in 1..Len(s) |-> s[Len(s) + 1 - i]]

\* the characters of a word
Chars(w) ==
    CASE w = "" -> <<>>
      [] w = "slow" -> <<"s", "l", "o", "w">>
      [] w = "lo" -> <<"l", "o">>
      [] w = "db" -> <<"d", "b">>
      [] w = "io" -> <<"i", "o">>
      [] w = "b,i" -> <<"b", ",", "i">>
      [] w = "GET" -> <<"G", "E", "T">>
      [] w = "get" -> <<"g", "e", "t">>
      [] w = "200" -> <<"2", "0", "0">>
      [] w = "/health" -> <<"/", "h", "e", "a", "l", "t", "h">>
      [] w = "tid" -> <<"t", "i", "d">>
      [] w = "request" -> <<"r", "e", "q", "u", "e", "s", "t">>
      [] w = "memory commit blocked (sleeping)" ->
            <<"m", "e", "m", "o", "r", "y", " ", "c", "o", "m", "m", "i", "t", " ",
              "b", "l", "o", "c", "k", "e", "d", " ", "(", "s", "l", "e", "e", "p",
              "i", "n", "g", ")">>
      [] OTHER -> <<w>>

RECURSIVE JoinTags(_)
\* ",".join(tags), in characters
JoinTags(tags) ==
    IF tags = <<>> THEN <<>>
    ELSE IF Tail(tags) = <<>> THEN Chars(Head(tags))
    ELSE Chars(Head(tags)) \o <<",">> \o JoinTags(Tail(tags))

\* the filter of LogBuffer.search that tells matches by the level alone
LogKeep_anytext(r, q, level, since_seconds, t) ==
    /\ level = None \/ level[1] = "" \/ r.level = UpperWord(level[1])
    /\ since_seconds = 0
            \/ r.ts >= t - Max(1, Min(since_seconds, MaxRangeSeconds))

\* the filter of the loop of LogBuffer.search: whether the event r is kept
LogKeep(r, q, level, since_seconds, t) ==
    /\ level = None \/ level[1] = "" \/ r.level = UpperWord(level[1])
    /\ q = "" \/ Contains(Chars(r.message), Chars(q))
              \/ Contains(JoinTags(r.tags), Chars(q))
    /\ since_seconds = 0
            \/ r.ts >= t - Max(1, Min(since_seconds, MaxRangeSeconds))

\* LogBuffer.search(q=, level=, since_seconds=, limit=) at time t: the matching
\* events, newest first.  q is a word, "" standing for None; level is <<>> or
\* <<word>>; since_seconds = 0 stands for None.
LogSearch(buf, q, level, since_seconds, limit, t) ==
    TakeEvents(SelectSeq(Reverse(buf), LAMBDA r : LogKeep(r, q, level, since_seconds, t)),
               Max(1, Min(limit, SearchMaxLimit)))

\* the window and the limit dashboard_overview passes to LogBuffer.search
DashboardWindow == 7 * 24 * 3600
DashboardLimit == 1000

\* the value of the tile auto_candidate_last_created of dashboard_overview at
\* time t: int(extra.get("created", 0)) of the newest event "auto_candidate_harvest"
\* among those the search returns, 0 when there is none
DashboardLastCreated(buf, t) ==
    LET recent_logs == LogSearch(buf, "", None, DashboardWindow, DashboardLimit, t)
        harvest_events ==
            SelectSeq(recent_logs,
                      LAMBDA r : r.message \in {"auto_candidate_harvest",
                                                "auto candidate harvested"})
    IN IF harvest_events # <<>> THEN harvest_events[1].created ELSE 0

\* Metrics.gauges.get(name, 0)
Gauge(g, name) == IF name \in DOMAIN g THEN g[name] ELSE 0

-----------------------------------------------------------------------------
(* The auto-candidate harvester. *)

\* ExperienceAutoCandidateConfig()
DefaultConfig ==
    [enabled |-> FALSE, min_count |-> 3, include_levels |-> <<"ERROR", "WARN">>,
     since_seconds |-> 900, min_confidence |-> 6, max_candidates |-> 10,
     min_samples |-> 20]

\* ExperienceAutoCandidateConfig(**body) with every field the body leaves out
\* set to the zero value of its type
ParseConfig_zeros(body) ==
    [f \in DOMAIN DefaultConfig |->
        IF f \in DOMAIN body THEN body[f]
        ELSE IF f = "enabled" THEN FALSE
        ELSE IF f = "include_levels" THEN <<>>
        ELSE 0]

\* ExperienceAutoCandidateConfig(**body): the model FastAPI builds from the
\* JSON object of a PUT; a field the body leaves out takes its declared default
ParseConfig(body) ==
    [f \in DOMAIN DefaultConfig |->
        IF f \in DOMAIN body THEN body[f] ELSE DefaultConfig[f]]

SeqToSet(s) == {s[i] : i \in 1..Len(s)}

\* index of the entry of freq with this key, 0 when there is none
FreqIndex(freq, module, level) ==
    LET hit == {i \in 1..Len(freq) : freq[i].module = module /\ freq[i].level = level}
    IN IF hit = {} THEN 0 ELSE CHOOSE i \in hit : TRUE

RECURSIVE Aggregate_alllevels(_, _, _)
\* the loop over recent that counts the events of every level
Aggregate_alllevels(recent, allow_levels, freq) ==
    IF recent = <<>> THEN freq
    ELSE LET it == Head(recent)
             level == UpperWord(it.level)
             module == IF it.module = "" THEN "unknown" ELSE it.module
             i == FreqIndex(freq, module, level)
         IN IF i = 0
            THEN Aggregate_alllevels(Tail(recent), allow_levels,
                           Append(freq, [module |-> module, level |-> level, cnt |-> it.n]))
            ELSE Aggregate_alllevels(Tail(recent), allow_levels,
                           [freq EXCEPT ![i].cnt = @ + it.n])

RECURSIVE Aggregate(_, _, _)
\* the loop over recent that fills freq: one entry per "module:level" key, in
\* the order the keys are first met
Aggregate(recent, allow_levels, freq) ==
    IF recent = <<>> THEN freq
    ELSE LET it == Head(recent)
             level == UpperWord(it.level)
             module == IF it.module = "" THEN "unknown" ELSE it.module
             i == FreqIndex(freq, module, level)
         IN IF level \notin allow_levels
            THEN Aggregate(Tail(recent), allow_levels, freq)
            ELSE IF i = 0
            THEN Aggregate(Tail(recent), allow_levels,
                           Append(freq, [module |-> module, level |-> level, cnt |-> it.n]))
            ELSE Aggregate(Tail(recent), allow_levels,
                           [freq EXCEPT ![i].cnt = @ + it.n])

RECURSIVE InsertDesc(_, _)
\* insert e behind every entry whose count is not smaller
InsertDesc(sorted, e) ==
    IF sorted = <<>> THEN <<e>>
    ELSE IF Head(sorted).cnt >= e.cnt THEN <<Head(sorted)>> \o InsertDesc(Tail(sorted), e)
    ELSE <<e>> \o sorted

RECURSIVE SortDesc(_, _)
\* sorted(freq.items(), key=lambda kv: kv[1], reverse=True): stable
SortDesc(freq, acc) ==
    IF freq = <<>> THEN acc ELSE SortDesc(Tail(freq), InsertDesc(acc, Head(freq)))

\* the draft rule the harvester builds for one key
HarvestCandidate(module, level, cnt, since_seconds, uuid) ==
    [id |-> uuid,
     title |-> <<module, " high-", LowerWord(level), " frequency reflection">>,
     content |-> <<"Observed ", ToString(cnt), " ", level, " logs in ", module,
                   " within last ", ToString(since_seconds), "s.">>,
     category |-> "reflection",
     tags |-> <<<<module>>, <<level>>, <<"auto">>>>,
     sources |-> <<>>,
     version |-> "v1",
     confidence |-> 7,
     weight |-> 10,
     status |-> "draft",
     created_at |-> None,
     updated_at |-> None,
     fingerprint |-> <<"sha256_16", <<module, "|", level, "|", ToString(cnt), "|",
                                      ToString(since_seconds)>>>>]

RECURSIVE HarvestLoop(_, _, _, _)
\* the loop over ordered: st carries the store, the identifiers used, created,
\* the keys of added_candidates, and whether store.add raised
HarvestLoop(ordered, cfg, st, t) ==
    IF ordered = <<>> \/ st.raised THEN st
    ELSE IF st.created >= OrInt(cfg.max_candidates, 10) THEN st
    ELSE IF Head(ordered).cnt < OrInt(cfg.min_count, 1)
    THEN HarvestLoop(Tail(ordered), cfg, st, t)
    ELSE LET e == Head(ordered)
             cand == HarvestCandidate(e.module, e.level, e.cnt, cfg.since_seconds,
                                      <<"u", st.uuids + 1>>)
             before_cnt == DraftCount(st.by)
             r == StoreAdd(st.by, st.idx, cand, TRUE, FALSE, cand.id, t)
             after_cnt == DraftCount(r.by)
         IN IF r.raised THEN [st EXCEPT !.raised = TRUE]
            ELSE HarvestLoop(Tail(ordered), cfg,
                    [by |-> r.by, idx |-> r.idx,
                     uuids |-> IF r.stored THEN st.uuids + 1 ELSE st.uuids,
                     created |-> IF after_cnt > before_cnt THEN st.created + 1
                                 ELSE st.created,
                     cands |-> IF after_cnt > before_cnt
                                  \/ r.ret[1].fingerprint = cand.fingerprint
                               THEN Append(st.cands, r.ret[1].id) ELSE st.cands,
                     raised |-> FALSE], t)

\* the events the harvester reads
HarvestRecent(buf, cfg, t) ==
    LogSearch(buf, "", None, Max(1, OrInt(cfg.since_seconds, 900)), HarvestLimit, t)

\* harvest_auto_candidates from the aggregation on: the loop over the keys, the
\* gauges and the log event.  path is "run", or "raised" when store.add raised
\* and the exception left the handler.
HarvestRun(by, idx, n, cfg, buf, g, t) ==
    LET recent == HarvestRecent(buf, cfg, t)
        freq == Aggregate(recent, {UpperWord(l) : l \in SeqToSet(cfg.include_levels)}, <<>>)
        ordered == SortDesc(freq, <<>>)
        st == HarvestLoop(ordered, cfg,
                          [by |-> by, idx |-> idx, uuids |-> n, created |-> 0,
                           cands |-> <<>>, raised |-> FALSE], t)
    IN IF st.raised
       THEN [path |-> "raised", created |-> st.created, cands |-> st.cands,
             by |-> st.by, idx |-> st.idx, uuids |-> st.uuids, gauges |-> g,
             logs |-> buf]
       ELSE [path |-> "run", created |-> st.created, cands |-> st.cands,
             by |-> st.by, idx |-> st.idx, uuids |-> st.uuids,
             gauges |-> Put(Put(g, "experience_candidates_total", DraftCount(st.by)),
                            "experience_auto_candidate_last_created", st.created),
             logs |-> LogBufferAddExtra(buf, "INFO", "auto_candidate_harvest", "experience",
                                        <<"enabled", ToString(st.created)>>,
                                        st.created, 1, t)]

\* harvest_auto_candidates with the switch on, without the check of the sample size
HarvestEnabled_unsampled(by, idx, n, cfg, buf, g, t) ==
    HarvestRun(by, idx, n, cfg, buf, g, t)

\* harvest_auto_candidates with the switch on: the check of the sample size,
\* then the run
HarvestEnabled(by, idx, n, cfg, buf, g, t) ==
    IF LogLen(HarvestRecent(buf, cfg, t)) < Max(1, cfg.min_samples)
    THEN [path |-> "insufficient_samples", created |-> 0, cands |-> <<>>,
          by |-> by, idx |-> idx, uuids |-> n,
          gauges |-> Put(g, "experience_auto_candidate_last_created", 0),
          logs |-> LogBufferAddExtra(buf, "INFO", "auto_candidate_harvest_skipped",
                                     "experience", <<"insufficient_samples">>, 0, 1, t)]
    ELSE HarvestRun(by, idx, n, cfg, buf, g, t)

\* harvest_auto_candidates that does not read the switch
Harvest_ungated(by, idx, n, cfg, buf, g, t) ==
    HarvestEnabled(by, idx, n, cfg, buf, g, t)

\* harvest_auto_candidates: the state it leaves and the created it returns.
\* path is "disabled", "insufficient_samples", "run" or "raised".
Harvest(by, idx, n, cfg, buf, g, t) ==
    IF ~cfg.enabled
    THEN [path |-> "disabled", created |-> 0, cands |-> <<>>,
          by |-> by, idx |-> idx, uuids |-> n, gauges |-> g,
          logs |-> LogBufferAddExtra(buf, "INFO", "auto_candidate_harvest_skipped",
                                     "experience", <<"disabled">>, 0, 1, t)]
    ELSE HarvestEnabled(by, idx, n, cfg, buf, g, t)

-----------------------------------------------------------------------------
(* Inputs of the calls. *)

\* titles a caller submits: "a", " A" (the same after strip and lower), "b"
Titles == {<<"a">>, <<" ", "A">>, <<"b">>}
Contents == {<<"x">>}
Statuses == {"active", "draft", "deprecated"}
\* statuses a caller submits with a new rule
InputStatuses == {"active", "draft"}

\* a fingerprint a caller supplies with the rule (a snapshot item's "fp", a
\* candidate body's "fingerprint")
SuppliedFingerprints == {<<"given", <<"f">>>>}

\* identifiers the store has handed out so far; a caller may send one back
KnownIds == {<<"u", i>> : i \in 1..uuids}

\* an identifier a caller chooses for a rule it submits: a UUID written in
\* upper case (the field id is any string)
SuppliedIds == {<<"U", 0>>}

\* ExperienceRule objects a caller builds, with these identifiers and statuses
RulesWith(ids, statuses) ==
    [id : {None} \cup ids,
     title : Titles,
     content : Contents,
     category : {"general"},
     tags : {<<>>},
     sources : {<<>>},
     version : {"v1"},
     confidence : {7},
     weight : {10},
     status : statuses,
     created_at : {None},
     updated_at : {None},
     fingerprint : {None} \cup SuppliedFingerprints]

\* rules handed to store.add: status is left at its default
InputRules == RulesWith(KnownIds, {"active"})

\* rules the calls of store.add carry: a caller sends an identifier back or
\* supplies a fingerprint
StoreRules == {r \in InputRules : r.fingerprint # None => r.id = None}

\* bodies of POST /candidates
CandidateRequests == RulesWith(KnownIds \cup SuppliedIds, InputStatuses)

\* patches of store.update: a title, or a field sent as None
StorePatches ==
    [{"title"} -> {<<t>> : t \in Titles}] \cup [{"status"} -> {None}]

\* patches of update_rule: also a status, or a number sent as the status
Patches ==
    StorePatches \cup [{"status"} -> {<<s>> : s \in Statuses \cup {NotAString}}]

\* the rules of a small catalog, as a caller builds them: two whose titles
\* differ only in case and blanks, one whose content holds the title of the
\* first and whose category is empty, one with tags, a category written with a
\* capital and twice the default weight
CatalogShapes ==
    {[title |-> <<"a">>, content |-> <<"x">>, category |-> "general", tags |-> <<>>,
      status |-> "active", weight |-> 10],
     [title |-> <<" ", "A">>, content |-> <<"x">>, category |-> "general", tags |-> <<>>,
      status |-> "active", weight |-> 10],
     [title |-> <<"b">>, content |-> <<"a">>, category |-> "", tags |-> <<<<"t">>>>,
      status |-> "draft", weight |-> 10],
     [title |-> <<"b">>, content |-> <<"x">>, category |-> "Ops",
      tags |-> <<<<"T">>, <<"u">>>>, status |-> "active", weight |-> 20]}

\* ExperienceRule objects of the catalog with these identifiers
CatalogWith(ids) ==
    {[id |-> id, title |-> sh.title, content |-> sh.content, category |-> sh.category,
      tags |-> sh.tags, sources |-> <<>>, version |-> "v1", confidence |-> 7,
      weight |-> sh.weight, status |-> sh.status, created_at |-> None,
      updated_at |-> None, fingerprint |-> None] : id \in ids, sh \in CatalogShapes}

\* rules of the catalog handed to store.add: each without identifier, and the
\* first once more under an identifier the store has handed out
CatalogRules ==
    CatalogWith({None}) \cup {r \in CatalogWith(KnownIds) : r.title = <<"a">>}

\* batches handed to store.import_items: one or two rules without identifier
ImportBatches ==
    {<<r>> : r \in CatalogWith({None})}
        \cup {<<r1, r2>> : r1 \in CatalogWith({None}), r2 \in CatalogWith({None})}

\* arguments of a search
Queries ==
    [q : {None, <<"a">>, <<" ", "A">>, <<"b">>},
     tag : {None, <<"t">>, <<"T", ",", "u">>},
     category : {"", "ops"},
     status : {"", " Draft "},
     limit : {0, 1, 50}]

\* configs a caller PUTs
Configs ==
    [enabled : BOOLEAN,
     min_count : {3},
     include_levels : {<<"ERROR", "WARN">>, <<"info", "WARN">>},
     since_seconds : {900},
     min_confidence : {6},
     max_candidates : {10},
     min_samples : {20}]

\* the JSON objects a caller PUTs: each names some of the fields
ConfigBodies ==
    {[f \in D |-> cfg[f]] : cfg \in Configs, D \in SUBSET {"enabled", "include_levels"}}

\* events other modules append (memory.py, the http middleware), and how many
\* in a row
ForeignEvents ==
    {[level |-> "WARN", message |-> "memory commit blocked (sleeping)", module |-> "memory",
      tags |-> <<TraceId>>],
     [level |-> "INFO", message |-> "request", module |-> "http",
      tags |-> <<"GET", "/health", "200", TraceId>>]}
Bursts == {25, 200}
\* events handed to logs.add: those of other modules, and one with its level in
\* lower case
AppendedEvents ==
    ForeignEvents \cup {[level |-> "warn", message |-> "slow", module |-> "memory",
                         tags |-> <<"db", "io">>]}

\* and how many in a row when the ring is to overflow
RingBursts == {150, 1900}

\* seconds the clock jumps by
ClockStep == 901

\* runs of events of other modules in the ring
ForeignRuns(buf) == Len(SelectSeq(buf, LAMBDA r : r.module # "experience"))

\* events of module experience in the ring
OwnEvents(buf) == LogLen(SelectSeq(buf, LAMBDA r : r.module = "experience"))

-----------------------------------------------------------------------------
(* The handlers, as functions of the state they run in. *)

\* _rules_search_impl(q=, tag=, category=, status=, limit=), f holding the
\* arguments: the SearchResponse
rules_search_impl(by, keys, f) ==
    LET items == search(by, keys, f.q, f.tag, f.category, f.status, f.limit)
    IN [count |-> Len(items), returned |-> Len(items), items |-> items]

\* list_candidates that searches with no status
list_candidates_anystatus(by, keys, buf, limit, t) ==
    LET items == search(by, keys, None, None, "", "", limit)
    IN [count |-> Len(items), returned |-> Len(items), items |-> items,
        logs |-> LogBufferAdd(buf, "INFO", "candidate search", "experience",
                              <<"", "", "", TraceId>>, 1, t)]

\* list_candidates(limit=), called without q, tag and category
list_candidates(by, keys, buf, limit, t) ==
    LET items == search(by, keys, None, None, "", "draft", limit)
    IN [count |-> Len(items), returned |-> Len(items), items |-> items,
        logs |-> LogBufferAdd(buf, "INFO", "candidate search", "experience",
                              <<"", "", "", TraceId>>, 1, t)]

\* add_rule(payload, dedup=, upsert=): the rule it builds from the JSON object
\* of the request.  The payload carries title, content, status and category,
\* the empty text and the empty word standing for a key left out.
AddRuleRule(payload) ==
    LET stripped == Strip(payload.title)
        content == payload.content
        title == IF stripped # <<>> THEN stripped
                 ELSE IF content # <<>>
                 THEN IF Len(content) > 33
                      THEN SubSeq(content, 1, 30) \o <<".", ".", ".">>
                      ELSE content
                 ELSE <<"u", "n", "t", "i", "t", "l", "e", "d">>
    IN [id |-> None, title |-> title, content |-> content,
        category |-> OrWord(payload.category, "general"), tags |-> <<>>,
        sources |-> <<>>, version |-> "v1", confidence |-> 7, weight |-> 10,
        status |-> OrWord(payload.status, "active"), created_at |-> None,
        updated_at |-> None, fingerprint |-> None]

\* add_rule(payload, dedup=, upsert=): raised is the 500 of an exception of
\* store.add
add_rule(by, idx, n, buf, g, payload, dedup, upsert, t) ==
    LET r == StoreAdd(by, idx, AddRuleRule(payload), dedup, upsert, <<"u", n + 1>>, t)
    IN [raised |-> r.raised, ret |-> r.ret, stored |-> r.stored,
        by |-> r.by, idx |-> r.idx,
        uuids |-> IF r.stored THEN n + 1 ELSE n,
        gauges |-> IF r.raised THEN g
                   ELSE Put(g, "experience_rules_total", Count(r.by)),
        logs |-> IF r.raised
                 THEN LogBufferAdd(buf, "ERROR", "add rule failed", "experience",
                                   <<"exception", TraceId>>, 1, t)
                 ELSE LogBufferAdd(buf, "INFO", "rule added", "experience",
                                   <<"add", TraceId>>, 1, t)]

\* add_candidate that stores the status the caller sent
add_candidate_keepstatus(by, idx, n, buf, g, req, dedup, upsert, t) ==
    LET r == StoreAdd(by, idx, req, dedup, upsert, <<"u", n + 1>>, t)
    IN [raised |-> r.raised, ret |-> r.ret, stored |-> r.stored,
        by |-> r.by, idx |-> r.idx,
        uuids |-> IF r.stored /\ req.id = None THEN n + 1 ELSE n,
        gauges |-> IF r.raised THEN g
                   ELSE Put(g, "experience_candidates_total", DraftCount(r.by)),
        logs |-> IF r.raised
                 THEN LogBufferAdd(buf, "ERROR", "add candidate failed", "experience",
                                   <<"exception", TraceId>>, 1, t)
                 ELSE LogBufferAdd(buf, "INFO", "candidate added", "experience",
                                   <<"candidate_add", TraceId>>, 1, t)]

\* add_candidate(req, dedup=, upsert=): n is the number of uuids stored so far
add_candidate(by, idx, n, buf, g, req, dedup, upsert, t) ==
    LET forced == [req EXCEPT !.status = "draft"]
        r == StoreAdd(by, idx, forced, dedup, upsert, <<"u", n + 1>>, t)
    IN [raised |-> r.raised, ret |-> r.ret, stored |-> r.stored,
        by |-> r.by, idx |-> r.idx,
        uuids |-> IF r.stored /\ req.id = None THEN n + 1 ELSE n,
        gauges |-> IF r.raised THEN g
                   ELSE Put(g, "experience_candidates_total", DraftCount(r.by)),
        logs |-> IF r.raised
                 THEN LogBufferAdd(buf, "ERROR", "add candidate failed", "experience",
                                   <<"exception", TraceId>>, 1, t)
                 ELSE LogBufferAdd(buf, "INFO", "candidate added", "experience",
                                   <<"candidate_add", TraceId>>, 1, t)]

\* the body shared by approve_candidate and reject_candidate, from
\* store.update(str(rule_id), {"status": status}) on
review(by, idx, buf, g, id, status, done, tags, missing, t) ==
    LET r == StoreUpdate(by, idx, id, [f \in {"status"} |-> <<status>>], t)
    IN [raised |-> r.raised, not_found |-> r.not_found, ret |-> r.ret,
        by |-> r.by, idx |-> r.idx,
        gauges |-> IF r.raised THEN g
                   ELSE Put(g, "experience_candidates_total", DraftCount(r.by)),
        logs |-> IF r.raised
                 THEN LogBufferAdd(buf, "WARN", missing, "experience", <<TraceId>>, 1, t)
                 ELSE LogBufferAdd(buf, "INFO", done, "experience", tags, 1, t)]

\* approve_candidate(rule_id): raised with not_found is the 404 of an unknown
\* identifier
approve_candidate(by, idx, buf, g, rule_id, t) ==
    review(by, idx, buf, g, CanonicalId(rule_id), "active",
           "candidate approved", <<"approve", TraceId>>,
           "candidate not found for approve", t)

\* reject_candidate(rule_id)
reject_candidate(by, idx, buf, g, rule_id, t) ==
    review(by, idx, buf, g, CanonicalId(rule_id), "deprecated",
           "candidate rejected", <<"reject", "", TraceId>>,
           "candidate not found for reject", t)

\* update_rule(rule_id, patch): raised with not_found is the 404 of an unknown
\* identifier, raised without it the 500 of any other exception
update_rule(by, idx, buf, rule_id, patch, t) ==
    LET r == StoreUpdate(by, idx, CanonicalId(rule_id), patch, t)
    IN [raised |-> r.raised, not_found |-> r.not_found, ret |-> r.ret,
        by |-> r.by, idx |-> r.idx,
        logs |-> IF r.not_found
                 THEN LogBufferAdd(buf, "WARN", "rule not found for update", "experience",
                                   <<TraceId>>, 1, t)
                 ELSE IF r.raised
                 THEN LogBufferAdd(buf, "ERROR", "update rule failed", "experience",
                                   <<"exception", TraceId>>, 1, t)
                 ELSE LogBufferAdd(buf, "INFO", "rule updated", "experience",
                                   <<"update", TraceId>>, 1, t)]

\* delete_rule(rule_id): raised is the 404 of an unknown identifier
delete_rule(by, idx, buf, g, rule_id, t) ==
    LET r == StoreDelete(by, idx, CanonicalId(rule_id))
    IN [raised |-> ~r.ret, by |-> r.by, idx |-> r.idx,
        gauges |-> IF ~r.ret THEN g
                   ELSE Put(Put(g, "experience_rules_total", Count(r.by)),
                            "experience_candidates_total", DraftCount(r.by)),
        logs |-> IF ~r.ret
                 THEN LogBufferAdd(buf, "WARN", "rule not found for delete", "experience",
                                   <<TraceId>>, 1, t)
                 ELSE LogBufferAdd(buf, "INFO", "rule deleted", "experience",
                                   <<"delete", TraceId>>, 1, t)]

\* PUT /auto-candidate/config: the config it assigns to the global auto_cfg
\* and returns
update_auto_candidate_config(body) == ParseConfig(body)

\* GET /auto-candidate/config
get_auto_candidate_config(cfg) == cfg

-----------------------------------------------------------------------------
(* The calls. *)

\* the threads that call into the store and the telemetry side by side
Threads == {1, 2}

\* a thread between two calls: pc names the step it is at, seen the count it
\* has read, event the log event it has built, id and patch the arguments of its
\* update, cur the rule it has read, done the calls it has completed
IdleThread ==
    [pc |-> "idle", name |-> "", seen |-> 0, event |-> <<>>, id |-> None, patch |-> <<>>,
     cur |-> <<>>, done |-> 0]

\* the calls of harvest_auto_candidates that are taken store call by store call
Calls == {1, 2}

\* no harvest call is under way: its locals before the call
IdleRun ==
    [pc |-> "idle", cfg |-> DefaultConfig, ordered |-> <<>>, before_cnt |-> 0,
     created |-> 0, inserted |-> 0]

Init ==
    /\ by_id = <<>>
    /\ by_id_keys = <<>>
    /\ id_by_fp = <<>>
    /\ uuids = 0
    /\ auto_cfg = DefaultConfig
    /\ logs = <<>>
    /\ gauges = <<>>
    /\ now = 0
    /\ harvesting = [c \in Calls |-> IdleRun]
    /\ counters = <<>>
    /\ lock = 0
    /\ threads = [t \in Threads |-> IdleThread]

\* room in the explored part of the log ring for one more event of a handler
LogRoom(buf) == OwnEvents(buf) < MaxOwnEvents

\* room for one more burst or one more event of the harvester
RunRoom(buf) == ForeignRuns(buf) + OwnEvents(buf) < MaxRuns

\* store.add(rule, dedup=, upsert=)
Add(rule, dedup, upsert) ==
    LET r == StoreAdd(by_id, id_by_fp, rule, dedup, upsert, <<"u", uuids + 1>>, now)
        fresh == r.stored /\ rule.id = None
    IN /\ fresh => uuids < MaxUuids
       /\ by_id' = r.by
       /\ by_id_keys' = KeysAfter(by_id_keys, r.by, IF r.stored THEN <<r.ret[1].id>> ELSE <<>>)
       /\ id_by_fp' = r.idx
       /\ uuids' = IF fresh THEN uuids + 1 ELSE uuids
       /\ UNCHANGED <<threadvars, harvesting, auto_cfg, logs, gauges, now>>

\* store.update(id, patch)
Update(id, patch) ==
    LET r == StoreUpdate(by_id, id_by_fp, id, patch, now)
    IN /\ by_id' = r.by
       /\ id_by_fp' = r.idx
       /\ UNCHANGED <<threadvars, harvesting, by_id_keys, uuids, auto_cfg, logs, gauges, now>>

\* store.delete(id)
Delete(id) ==
    LET r == StoreDelete(by_id, id_by_fp, id)
    IN /\ by_id' = r.by
       /\ by_id_keys' = KeysAfter(by_id_keys, r.by, <<>>)
       /\ id_by_fp' = r.idx
       /\ UNCHANGED <<threadvars, harvesting, uuids, auto_cfg, logs, gauges, now>>

\* POST /candidates
AddCandidate(req, dedup, upsert) ==
    LET r == add_candidate(by_id, id_by_fp, uuids, logs, gauges, req, dedup, upsert, now)
    IN /\ LogRoom(logs)
       /\ r.uuids <= MaxUuids
       /\ by_id' = r.by
       /\ by_id_keys' = KeysAfter(by_id_keys, r.by, IF r.stored THEN <<r.ret[1].id>> ELSE <<>>)
       /\ id_by_fp' = r.idx
       /\ uuids' = r.uuids
       /\ gauges' = r.gauges
       /\ logs' = r.logs
       /\ UNCHANGED <<threadvars, harvesting, auto_cfg, now>>

\* POST /candidates/{rule_id}/approve
ApproveCandidate(id) ==
    LET r == approve_candidate(by_id, id_by_fp, logs, gauges, id, now)
    IN /\ LogRoom(logs)
       /\ by_id' = r.by
       /\ id_by_fp' = r.idx
       /\ gauges' = r.gauges
       /\ logs' = r.logs
       /\ UNCHANGED <<threadvars, harvesting, by_id_keys, uuids, auto_cfg, now>>

\* POST /candidates/{rule_id}/reject
RejectCandidate(id) ==
    LET r == reject_candidate(by_id, id_by_fp, logs, gauges, id, now)
    IN /\ LogRoom(logs)
       /\ by_id' = r.by
       /\ id_by_fp' = r.idx
       /\ gauges' = r.gauges
       /\ logs' = r.logs
       /\ UNCHANGED <<threadvars, harvesting, by_id_keys, uuids, auto_cfg, now>>

\* PUT /rules/{rule_id}
UpdateRule(id, patch) ==
    LET r == update_rule(by_id, id_by_fp, logs, id, patch, now)
    IN /\ LogRoom(logs)
       /\ by_id' = r.by
       /\ id_by_fp' = r.idx
       /\ logs' = r.logs
       /\ UNCHANGED <<threadvars, harvesting, by_id_keys, uuids, auto_cfg, gauges, now>>

\* DELETE /rules/{rule_id}
DeleteRule(id) ==
    LET r == delete_rule(by_id, id_by_fp, logs, gauges, id, now)
    IN /\ LogRoom(logs)
       /\ by_id' = r.by
       /\ by_id_keys' = KeysAfter(by_id_keys, r.by, <<>>)
       /\ id_by_fp' = r.idx
       /\ gauges' = r.gauges
       /\ logs' = r.logs
       /\ UNCHANGED <<threadvars, harvesting, uuids, auto_cfg, now>>

\* store.import_items(items, upsert=, dedup=)
ImportItems(items, upsert, dedup) ==
    \E r \in {import_items(by_id, by_id_keys, id_by_fp, uuids, items, upsert, dedup, now)} :
        /\ r.uuids <= MaxUuids
        /\ by_id' = r.by
        /\ by_id_keys' = r.keys
        /\ id_by_fp' = r.idx
        /\ uuids' = r.uuids
        /\ UNCHANGED <<threadvars, harvesting, auto_cfg, logs, gauges, now>>

\* PUT /auto-candidate/config
UpdateAutoCandidateConfig(body) ==
    /\ auto_cfg' = update_auto_candidate_config(body)
    /\ UNCHANGED <<threadvars, harvesting, by_id, by_id_keys, id_by_fp, uuids, logs, gauges, now>>

\* POST /auto-candidate/harvest
HarvestAutoCandidates ==
    /\ RunRoom(logs)
    /\ \E h \in {Harvest(by_id, id_by_fp, uuids, auto_cfg, logs, gauges, now)} :
            /\ h.uuids <= MaxUuids
            /\ by_id' = h.by
            /\ by_id_keys' = KeysAfter(by_id_keys, h.by,
                                       [i \in 1..(h.uuids - uuids) |-> <<"u", uuids + i>>])
            /\ id_by_fp' = h.idx
            /\ uuids' = h.uuids
            /\ gauges' = h.gauges
            /\ logs' = h.logs
    /\ UNCHANGED <<threadvars, harvesting, auto_cfg, now>>

\* another module appends the event e k times in a row:
\* logs.add(level, message, module=).  A burst is explored once: not continued
\* by a further burst of the same event.
LogAdd(e, k) ==
    /\ logs # <<>> =>
         ~SameEvent(logs[Len(logs)],
                    [level |-> UpperWord(e.level), module |-> e.module,
                     message |-> e.message, tags |-> e.tags, created |-> 0, ts |-> now])
    /\ RunRoom(logs)
    /\ logs' = LogBufferAdd(logs, e.level, e.message, e.module, e.tags, k, now)
    /\ UNCHANGED <<threadvars, harvesting, by_id, by_id_keys, id_by_fp, uuids, auto_cfg, gauges, now>>

\* time passes: more than the default window of the harvester
Tick ==
    /\ now < MaxTicks * ClockStep
    /\ now' = now + ClockStep
    /\ UNCHANGED <<threadvars, harvesting, by_id, by_id_keys, id_by_fp, uuids, auto_cfg, logs, gauges>>

\* harvest_auto_candidates, taken store call by store call.  Each of
\* store.list_all and store.add holds the lock of the store for the length of
\* the call only, and the handler holds no lock across them: between two
\* steps of a call every other operation on the store may run.
\*
\* the call starts: it reads the config and the log ring, and orders the keys.
\* The paths that make no store call ("disabled", "insufficient_samples") are
\* taken whole by HarvestAutoCandidates.
RunStart(c) ==
    /\ harvesting[c].pc \in {"idle", "returned", "raised"}
    /\ RunRoom(logs)
    /\ auto_cfg.enabled
    /\ \E recent \in {HarvestRecent(logs, auto_cfg, now)} :
         /\ LogLen(recent) >= Max(1, auto_cfg.min_samples)
         /\ harvesting' = [harvesting EXCEPT ![c] =
              [pc |-> "loop", cfg |-> auto_cfg,
               ordered |-> SortDesc(Aggregate(recent,
                              {UpperWord(l) : l \in SeqToSet(auto_cfg.include_levels)},
                              <<>>), <<>>),
               before_cnt |-> 0, created |-> 0, inserted |-> 0]]
    /\ UNCHANGED <<threadvars, by_id, by_id_keys, id_by_fp, uuids, auto_cfg, logs, gauges, now>>

\* the head of the loop over the keys, up to the count of drafts before the add
RunBefore(c) ==
    /\ harvesting[c].pc = "loop"
    /\ harvesting' =
         IF harvesting[c].ordered = <<>>
            \/ harvesting[c].created >= OrInt(harvesting[c].cfg.max_candidates, 10)
         THEN [harvesting EXCEPT ![c].pc = "finish"]
         ELSE IF Head(harvesting[c].ordered).cnt < OrInt(harvesting[c].cfg.min_count, 1)
         THEN [harvesting EXCEPT ![c].ordered = Tail(@)]
         ELSE [harvesting EXCEPT ![c].pc = "add", ![c].before_cnt = DraftCount(by_id)]
    /\ UNCHANGED <<threadvars, by_id, by_id_keys, id_by_fp, uuids, auto_cfg, logs, gauges, now>>

\* store.add(cand, dedup=True, upsert=False) of the loop.  inserted counts the
\* rules the call has put into the store; the code keeps no such count.
RunAdd(c) ==
    /\ harvesting[c].pc = "add"
    /\ LET e == Head(harvesting[c].ordered)
           cand == HarvestCandidate(e.module, e.level, e.cnt, harvesting[c].cfg.since_seconds,
                                    <<"u", uuids + 1>>)
           r == StoreAdd(by_id, id_by_fp, cand, TRUE, FALSE, cand.id, now)
       IN IF r.raised
          THEN /\ harvesting' = [harvesting EXCEPT ![c].pc = "raised"]
               /\ UNCHANGED <<threadvars, by_id, by_id_keys, id_by_fp, uuids>>
          ELSE /\ r.stored => uuids < MaxUuids
               /\ by_id' = r.by
               /\ by_id_keys' = KeysAfter(by_id_keys, r.by,
                                          IF r.stored THEN <<cand.id>> ELSE <<>>)
               /\ id_by_fp' = r.idx
               /\ uuids' = IF r.stored THEN uuids + 1 ELSE uuids
               /\ harvesting' = [harvesting EXCEPT ![c].pc = "after",
                                    ![c].inserted = IF r.stored THEN @ + 1 ELSE @]
    /\ UNCHANGED <<threadvars, auto_cfg, logs, gauges, now>>

\* the count of drafts after the add, and the step of created
RunAfter(c) ==
    /\ harvesting[c].pc = "after"
    /\ harvesting' =
         [harvesting EXCEPT ![c].pc = "loop", ![c].ordered = Tail(@),
             ![c].created = IF DraftCount(by_id) > harvesting[c].before_cnt
                            THEN @ + 1 ELSE @]
    /\ UNCHANGED <<threadvars, by_id, by_id_keys, id_by_fp, uuids, auto_cfg, logs, gauges, now>>

\* after the loop: the gauges, the log event and the response with created
RunFinish(c) ==
    /\ harvesting[c].pc = "finish"
    /\ gauges' = Put(Put(gauges, "experience_candidates_total", DraftCount(by_id)),
                     "experience_auto_candidate_last_created", harvesting[c].created)
    /\ logs' = LogBufferAddExtra(logs, "INFO", "auto_candidate_harvest", "experience",
                                 <<"enabled", ToString(harvesting[c].created)>>,
                                 harvesting[c].created, 1, now)
    /\ harvesting' = [harvesting EXCEPT ![c].pc = "returned"]
    /\ UNCHANGED <<threadvars, by_id, by_id_keys, id_by_fp, uuids, auto_cfg, now>>

\* Metrics.inc(name, 1), taken as the two accesses to the dictionary it is made
\* of: self.counters.get(name, 0), then self.counters[name] = ... + 1.  Metrics
\* holds no lock, so another thread may run between the two.
\*
\* the thread t reads the count
IncRead(t, name) ==
    /\ threads[t].pc = "idle"
    /\ threads[t].done < MaxCalls
    /\ threads' = [threads EXCEPT ![t].pc = "inc", ![t].name = name,
                                  ![t].seen = Gauge(counters, name)]
    /\ UNCHANGED <<harvesting, by_id, by_id_keys, id_by_fp, uuids, auto_cfg, logs, gauges,
                   now, counters, lock>>

\* the thread t writes the count it has read, plus one, and returns
IncWrite(t) ==
    /\ threads[t].pc = "inc"
    /\ counters' = Put(counters, threads[t].name, threads[t].seen + 1)
    /\ threads' = [threads EXCEPT ![t].pc = "idle", ![t].done = @ + 1]
    /\ UNCHANGED <<harvesting, by_id, by_id_keys, id_by_fp, uuids, auto_cfg, logs, gauges,
                   now, lock>>

\* LogBuffer.add(level, message, module=, tags=), taken as its two steps: the
\* dict of the event is built, with the time of that moment, and then handed to
\* deque.append, which appends and evicts in one call of the interpreter.
\* LogBuffer holds no lock.
\*
\* the thread t builds the event
AddBuild(t, e) ==
    /\ threads[t].pc = "idle"
    /\ threads[t].done < MaxAppends
    /\ threads' = [threads EXCEPT ![t].pc = "built",
            ![t].event = <<[level |-> UpperWord(e.level), module |-> e.module,
                            message |-> e.message, tags |-> e.tags, created |-> 0,
                            ts |-> now]>>]
    /\ UNCHANGED <<harvesting, by_id, by_id_keys, id_by_fp, uuids, auto_cfg, logs, gauges,
                   now, counters, lock>>

\* self._buf.append(event), and add returns
AddAppend(t) ==
    /\ threads[t].pc = "built"
    /\ logs' = Push(logs, threads[t].event[1], 1, LogMaxLen)
    /\ threads' = [threads EXCEPT ![t].pc = "idle", ![t].event = <<>>, ![t].done = @ + 1]
    /\ UNCHANGED <<harvesting, by_id, by_id_keys, id_by_fp, uuids, auto_cfg, gauges,
                   now, counters, lock>>

\* a lock that lets every thread in
CanAcquire_unlocked(l) == TRUE

\* whether a thread that comes to `with self._lock` goes on: the lock is free
CanAcquire(l) == l = 0

\* a thread whose call has ended: its locals are gone
Ended(th, pc) == [IdleThread EXCEPT !.pc = pc, !.done = th.done + 1]

\* ExperienceStore.update(id, patch), taken step by step.  The whole body of
\* update is inside `with self._lock`.
\*
\* the thread t calls update and takes the lock
UpdateEnter(t, id, patch) ==
    /\ threads[t].pc \in {"idle", "returned", "raised"}
    /\ threads[t].done < MaxUpdates
    /\ CanAcquire(lock)
    /\ lock' = t
    /\ threads' = [threads EXCEPT ![t].pc = "locked", ![t].id = id, ![t].patch = <<patch>>,
                                  ![t].cur = <<>>]
    /\ UNCHANGED <<harvesting, by_id, by_id_keys, id_by_fp, uuids, auto_cfg, logs, gauges,
                   now, counters>>

\* cur = self._by_id.get(id); KeyError("not_found") when there is none, which
\* leaves the with block and frees the lock
UpdateRead(t) ==
    /\ threads[t].pc = "locked"
    /\ IF threads[t].id \in DOMAIN by_id
       THEN /\ threads' = [threads EXCEPT ![t].pc = "read",
                                          ![t].cur = <<by_id[threads[t].id]>>]
            /\ UNCHANGED lock
       ELSE /\ threads' = [threads EXCEPT ![t] = Ended(threads[t], "raised")]
            /\ lock' = 0
    /\ UNCHANGED <<harvesting, by_id, by_id_keys, id_by_fp, uuids, auto_cfg, logs, gauges,
                   now, counters>>

\* the rule is built from the rule read and the patch, and written to the
\* identity map and the index; a ValidationError leaves the with block
UpdateWrite(t) ==
    /\ threads[t].pc = "read"
    /\ LET id == threads[t].id
           r == StoreUpdate([k \in {id} |-> threads[t].cur[1]], id_by_fp, id,
                            threads[t].patch[1], now)
       IN IF r.raised
          THEN /\ threads' = [threads EXCEPT ![t] = Ended(threads[t], "raised")]
               /\ lock' = 0
               /\ UNCHANGED <<by_id, id_by_fp>>
          ELSE /\ by_id' = Put(by_id, id, r.ret[1])
               /\ id_by_fp' = Put(id_by_fp, r.ret[1].fingerprint, id)
               /\ threads' = [threads EXCEPT ![t].pc = "written"]
               /\ UNCHANGED lock
    /\ UNCHANGED <<harvesting, by_id_keys, uuids, auto_cfg, logs, gauges, now, counters>>

\* the with block ends, the lock is freed, update returns
UpdateReturn(t) ==
    /\ threads[t].pc = "written"
    /\ lock' = 0
    /\ threads' = [threads EXCEPT ![t] = Ended(threads[t], "returned")]
    /\ UNCHANGED <<harvesting, by_id, by_id_keys, id_by_fp, uuids, auto_cfg, logs, gauges,
                   now, counters>>

\* identifiers a caller may name: those handed out, and one never handed out
CallIds == KnownIds \cup {<<"u", uuids + 1>>}

\* identifiers a caller may write into the path of a request
PathIds == CallIds \cup SuppliedIds

\* the store, called directly
StoreNext ==
    \/ \E rule \in StoreRules, dedup \in BOOLEAN, upsert \in BOOLEAN : Add(rule, dedup, upsert)
    \/ \E id \in CallIds, patch \in StorePatches : Update(id, patch)
    \/ \E id \in CallIds : Delete(id)

Spec == Init /\ [][StoreNext]_vars

\* the store holding a catalog: filled rule by rule and in batches, emptied
\* rule by rule
CatalogNext ==
    \/ \E rule \in CatalogRules, dedup \in BOOLEAN, upsert \in BOOLEAN :
            Add(rule, dedup, upsert)
    \/ \E id \in CallIds : Delete(id)
    \/ \E items \in ImportBatches, upsert \in BOOLEAN, dedup \in BOOLEAN :
            ImportItems(items, upsert, dedup)

SpecCatalog == Init /\ [][CatalogNext]_vars

\* the review workflow, through its handlers
WorkflowNext ==
    \/ \E req \in CandidateRequests, dedup \in BOOLEAN, upsert \in BOOLEAN :
            AddCandidate(req, dedup, upsert)
    \/ \E id \in PathIds : ApproveCandidate(id)
    \/ \E id \in PathIds : RejectCandidate(id)
    \/ \E id \in PathIds, patch \in Patches : UpdateRule(id, patch)
    \/ \E id \in PathIds : DeleteRule(id)

SpecWorkflow == Init /\ [][WorkflowNext]_vars

\* the harvester, its config and the telemetry it reads
HarvestNext ==
    \/ \E body \in ConfigBodies : UpdateAutoCandidateConfig(body)
    \/ HarvestAutoCandidates
    \/ \E e \in ForeignEvents, k \in Bursts : LogAdd(e, k)
    \/ Tick

SpecHarvest == Init /\ [][HarvestNext]_vars

\* bodies of POST /candidates that name no identifier
RaceRequests == {r \in CandidateRequests : r.id = None /\ r.status = "draft"}

\* a harvest call taken store call by store call, among the other operations
\* on the store: candidates submitted, approved, rejected, rules deleted, and a
\* second harvest call
InterleavedNext ==
    \/ UpdateAutoCandidateConfig([enabled |-> TRUE])
    \/ \E e \in ForeignEvents : LogAdd(e, 25)
    \/ RunStart(1)
    \/ RunBefore(1)
    \/ RunAdd(1)
    \/ RunAfter(1)
    \/ RunFinish(1)
    \/ HarvestAutoCandidates
    \/ \E req \in RaceRequests : AddCandidate(req, TRUE, FALSE)
    \/ \E id \in KnownIds : ApproveCandidate(id)
    \/ \E id \in KnownIds : RejectCandidate(id)
    \/ \E id \in KnownIds : DeleteRule(id)

SpecInterleaved == Init /\ [][InterleavedNext]_vars

\* configs under which the harvester runs
RunBodies == {b \in ConfigBodies : "enabled" \in DOMAIN b /\ b.enabled}

\* harvest calls taken store call by store call, side by side
ConcurrentNext ==
    \/ \E body \in RunBodies : UpdateAutoCandidateConfig(body)
    \/ \E e \in ForeignEvents : LogAdd(e, 25)
    \/ \E c \in Calls : RunStart(c)
    \/ \E c \in Calls : RunBefore(c)
    \/ \E c \in Calls : RunAdd(c)
    \/ \E c \in Calls : RunAfter(c)
    \/ \E c \in Calls : RunFinish(c)

SpecConcurrent == Init /\ [][ConcurrentNext]_vars

\* the event a thread appends: that of a request of its own, tagged with the
\* trace id of the request
ThreadEvent(t) ==
    [level |-> "WARN", message |-> "memory commit blocked (sleeping)", module |-> "memory",
     tags |-> <<IF t = 1 THEN "tid1" ELSE "tid2">>]

\* threads that append to the log ring side by side, in a ring other callers
\* have filled
AppendersNext ==
    \/ \E t \in Threads : AddBuild(t, ThreadEvent(t))
    \/ \E t \in Threads : AddAppend(t)
    \/ \E e \in ForeignEvents, k \in RingBursts : LogAdd(e, k)

SpecAppenders == Init /\ [][AppendersNext]_vars

\* patches of two callers: one names the title, the other the status
TitlePatches == [{"title"} -> {<<t>> : t \in Titles}]
StatusOnlyPatches == [{"status"} -> {<<s>> : s \in Statuses \cup {NotAString}}]

\* the rules the threads find in the store: added with the title "a"
UpdatedRules ==
    {r \in StoreRules : r.id = None /\ r.fingerprint = None /\ r.title = <<"a">>}

\* threads that update the rules of the store side by side
UpdatersNext ==
    \/ uuids < MaxStored /\ \E rule \in UpdatedRules : Add(rule, FALSE, FALSE)
    \/ \E t \in Threads, id \in CallIds, patch \in TitlePatches \cup StatusOnlyPatches :
            UpdateEnter(t, id, patch)
    \/ \E t \in Threads : UpdateRead(t)
    \/ \E t \in Threads : UpdateWrite(t)
    \/ \E t \in Threads : UpdateReturn(t)

SpecUpdaters == Init /\ [][UpdatersNext]_vars

\* the counter the threads step
CounterNames == {"experience_rule_updated_total"}

\* threads that step one counter side by side
CountersNext ==
    \/ \E t \in Threads, name \in CounterNames : IncRead(t, name)
    \/ \E t \in Threads : IncWrite(t)

SpecCounters == Init /\ [][CountersNext]_vars

\* the log ring alone: appends of other modules, some long enough to fill the
\* ring, and the clock
LogsNext ==
    \/ \E e \in AppendedEvents, k \in RingBursts : LogAdd(e, k)
    \/ Tick

SpecLogs == Init /\ [][LogsNext]_vars

-----------------------------------------------------------------------------
(* Properties of the store: Spec. *)

\* trimmed and lower-cased
Normalize(text) == Lower(Strip(text))

\* hash(normalize(title) + "\n" + normalize(content)) of a rule
ContentHash(rule) ==
    <<"sha256", Normalize(rule.title) \o <<"\n">> \o Normalize(rule.content)>>

\* rules that carry no caller-supplied identifier or fingerprint
PlainRules == {r \in InputRules : r.id = None /\ r.fingerprint = None}

\* no two stored rules have the same fingerprint
NoSharedFingerprint(by) ==
    \A j \in DOMAIN by, k \in DOMAIN by :
        by[j].fingerprint = by[k].fingerprint => j = k

\* the index maps the fingerprint of every stored rule to that rule
Indexed(by, idx) ==
    \A k \in DOMAIN by :
        by[k].fingerprint \in DOMAIN idx /\ idx[by[k].fingerprint] = k

\* C1, as stated: in every state of the store, two successive adds with dedup
\* enabled of rules without identifier and fingerprint whose (title, content)
\* pairs are equal after trimming and lower-casing both return, the second
\* returns the rule with the identifier the first returned, and the second
\* leaves the number of stored rules as the first left it.
C1_DedupAddTwiceSameIdentifier ==
    \A r1 \in PlainRules, r2 \in PlainRules :
        (Normalize(r1.title) = Normalize(r2.title)
            /\ Normalize(r1.content) = Normalize(r2.content)) =>
        LET a == StoreAdd(by_id, id_by_fp, r1, TRUE, FALSE, <<"u", uuids + 1>>, now)
            n == IF a.stored THEN uuids + 1 ELSE uuids
            b == StoreAdd(a.by, a.idx, r2, TRUE, FALSE, <<"u", n + 1>>, now)
        IN /\ ~a.raised
           /\ ~b.raised
           /\ b.ret[1].id = a.ret[1].id
           /\ Count(b.by) = Count(a.by)

\* C2, as stated: every rule in the store has
\* fingerprint = hash(normalize(title) + "\n" + normalize(content)).
C2_EveryFingerprintIsContentHash ==
    \A k \in DOMAIN by_id : by_id[k].fingerprint = ContentHash(by_id[k])

\* C2, amended: every stored rule whose fingerprint was not supplied by the
\* caller of add has fingerprint = hash(normalize(title) + "\n" +
\* normalize(content)); an add of a rule without fingerprint stores it with that
\* hash, and a successful update leaves the updated rule with that hash whatever
\* fingerprint it had before.
C2_UnsuppliedFingerprintIsContentHash ==
    /\ \A k \in DOMAIN by_id :
            by_id[k].fingerprint \notin SuppliedFingerprints =>
                by_id[k].fingerprint = ContentHash(by_id[k])
    /\ \A rule \in InputRules, dedup \in BOOLEAN, upsert \in BOOLEAN :
            LET a == StoreAdd(by_id, id_by_fp, rule, dedup, upsert, <<"u", uuids + 1>>, now)
            IN (rule.fingerprint = None /\ a.stored) =>
                   /\ a.ret[1].fingerprint = ContentHash(rule)
                   /\ a.by[a.ret[1].id].fingerprint = ContentHash(a.by[a.ret[1].id])
    /\ \A id \in DOMAIN by_id, patch \in StorePatches :
            LET u == StoreUpdate(by_id, id_by_fp, id, patch, now)
            IN /\ ~u.raised
               /\ u.by[id].fingerprint = ContentHash(u.by[id])

\* C2: the store holds a rule with a supplied fingerprint beside a rule whose
\* title had to be trimmed and lower-cased for its fingerprint.
C2_Witness ==
    /\ \E k \in DOMAIN by_id : by_id[k].fingerprint \in SuppliedFingerprints
    /\ \E k \in DOMAIN by_id :
            /\ by_id[k].title = <<" ", "A">>
            /\ by_id[k].fingerprint = <<"sha256", <<"a", "\n", "x">>>>

\* C3, as stated: after an add with dedup enabled, in whatever state the
\* preceding adds, updates and deletes left the store, no two stored rules have
\* the same fingerprint.
C3_NoSharedFingerprintAfterDedupAdd ==
    \A rule \in InputRules, upsert \in BOOLEAN :
        NoSharedFingerprint(
            StoreAdd(by_id, id_by_fp, rule, TRUE, upsert, <<"u", uuids + 1>>, now).by)

\* C3, amended: as long as the index maps the fingerprint of every stored rule to
\* that rule, which is so in the empty store and is kept by every add with dedup
\* enabled and by every delete, no two stored rules have the same fingerprint
\* after an add with dedup enabled.
C3_DedupWritesKeepFingerprintsUnique ==
    Indexed(by_id, id_by_fp) =>
        /\ NoSharedFingerprint(by_id)
        /\ \A rule \in InputRules, upsert \in BOOLEAN :
                LET a == StoreAdd(by_id, id_by_fp, rule, TRUE, upsert,
                                  <<"u", uuids + 1>>, now)
                IN NoSharedFingerprint(a.by) /\ Indexed(a.by, a.idx)
        /\ \A id \in CallIds :
                LET d == StoreDelete(by_id, id_by_fp, id)
                IN Indexed(d.by, d.idx)

\* C3: an indexed store that holds a rule and an index entry of a deleted rule,
\* where one add with dedup enabled is answered from the index and another
\* stores a second rule.
C3_Witness ==
    /\ Indexed(by_id, id_by_fp)
    /\ by_id # <<>>
    /\ \E fp \in DOMAIN id_by_fp : id_by_fp[fp] \notin DOMAIN by_id
    /\ \E rule \in PlainRules :
            LET a == StoreAdd(by_id, id_by_fp, rule, TRUE, FALSE, <<"u", uuids + 1>>, now)
            IN ~a.raised /\ ~a.stored
    /\ \E rule \in PlainRules :
            LET a == StoreAdd(by_id, id_by_fp, rule, TRUE, FALSE, <<"u", uuids + 1>>, now)
            IN a.stored /\ Count(a.by) = Count(by_id) + 1

\* C4, as stated: when add is called with dedup enabled and the index holds the
\* fingerprint of the incoming rule, add returns, stores nothing, and the rule
\* it returns is in the store and has the fingerprint of the incoming rule.
C4_DedupHitReturnsRuleOfThatFingerprint ==
    \A rule \in InputRules, upsert \in BOOLEAN :
        LET fp == ensure_ids(rule, <<"u", uuids + 1>>, now).fingerprint
            a == StoreAdd(by_id, id_by_fp, rule, TRUE, upsert, <<"u", uuids + 1>>, now)
        IN fp \in DOMAIN id_by_fp =>
            /\ ~a.raised
            /\ a.by = by_id
            /\ \E k \in DOMAIN by_id : by_id[k] = a.ret[1]
            /\ a.ret[1].fingerprint = fp

-----------------------------------------------------------------------------
(* Properties of the review workflow: SpecWorkflow. *)

\* C5, as stated: every rule candidate submission returns has status draft.
C5_ReturnedCandidateIsDraft ==
    \A req \in CandidateRequests, dedup \in BOOLEAN, upsert \in BOOLEAN :
        LET r == add_candidate(by_id, id_by_fp, uuids, logs, gauges, req, dedup, upsert, now)
        IN ~r.raised => r.ret[1].status = "draft"

\* C5, amended: every rule candidate submission stores has status draft and is
\* the rule it returns, whatever status the caller supplied; a submission that
\* stores nothing had dedup enabled, leaves the store as it was and returns a
\* rule the store already held, with the status that rule has.
C5_StoredCandidateIsDraft ==
    \A req \in CandidateRequests, dedup \in BOOLEAN, upsert \in BOOLEAN :
        LET r == add_candidate(by_id, id_by_fp, uuids, logs, gauges, req, dedup, upsert, now)
        IN ~r.raised =>
            IF r.stored
            THEN /\ r.ret[1].status = "draft"
                 /\ r.by[r.ret[1].id] = r.ret[1]
            ELSE /\ dedup
                 /\ r.by = by_id
                 /\ \E k \in DOMAIN by_id : by_id[k] = r.ret[1]

\* C5: the store holds an active rule that came in as a candidate; one
\* submission sent with status active is stored as a draft, another is answered
\* with the active rule.
C5_Witness ==
    /\ \E i \in 1..Len(logs) : logs[i].message = "candidate added"
    /\ \E k \in DOMAIN by_id : by_id[k].status = "active"
    /\ \E req \in CandidateRequests, upsert \in BOOLEAN :
            LET r == add_candidate(by_id, id_by_fp, uuids, logs, gauges, req, FALSE, upsert, now)
            IN req.status = "active" /\ r.stored /\ r.ret[1].status = "draft"
    /\ \E req \in CandidateRequests :
            LET r == add_candidate(by_id, id_by_fp, uuids, logs, gauges, req, TRUE, FALSE, now)
            IN ~r.raised /\ ~r.stored /\ r.ret[1].status = "active"

\* C6, as stated: for every identifier in the store, approve returns and leaves
\* the rule with status active, and reject returns and leaves it with status
\* deprecated, whatever status the rule had.
C6_ReviewSetsStatus ==
    \A id \in DOMAIN by_id :
        LET a == approve_candidate(by_id, id_by_fp, logs, gauges, id, now)
            r == reject_candidate(by_id, id_by_fp, logs, gauges, id, now)
        IN /\ ~a.raised
           /\ a.by[id].status = "active"
           /\ a.ret[1].status = "active"
           /\ ~r.raised
           /\ r.by[id].status = "deprecated"
           /\ r.ret[1].status = "deprecated"

-----------------------------------------------------------------------------
(* Properties of the harvester: SpecHarvest. *)

\* number of events the harvester retrieves
Samples(cfg) == LogLen(HarvestRecent(logs, cfg, now))

\* the ring ends with this event of module experience
LastLogged(message) ==
    /\ logs # <<>>
    /\ logs[Len(logs)].module = "experience"
    /\ logs[Len(logs)].message = message

\* C7, as stated: of two harvest runs in succession with the same enabled
\* config, between which only the harvester appends to the log ring, the second
\* returns created = 0 and leaves the number of stored rules unchanged.
C7_SecondHarvestCreatesNothing ==
    \A cfg \in Configs :
        cfg.enabled =>
            LET h1 == Harvest(by_id, id_by_fp, uuids, cfg, logs, gauges, now)
                h2 == Harvest(h1.by, h1.idx, h1.uuids, cfg, h1.logs, h1.gauges, now)
            IN h1.path # "raised" =>
                   /\ h2.created = 0
                   /\ Count(h2.by) = Count(h1.by)

\* C8: with enabled = false, harvest returns created = 0 and leaves the identity
\* map and the fingerprint index as they were, for every log ring and every
\* value of the other config fields.
C8_DisabledHarvestChangesNothing ==
    \A cfg \in Configs :
        ~cfg.enabled =>
            LET h == Harvest(by_id, id_by_fp, uuids, cfg, logs, gauges, now)
            IN /\ h.created = 0
               /\ h.by = by_id
               /\ h.idx = id_by_fp

\* C8: the switch is off, the harvest has just been skipped over a store that
\* holds a rule, and with the switch on the same call would have created one.
C8_Witness ==
    /\ ~auto_cfg.enabled
    /\ by_id # <<>>
    /\ LastLogged("auto_candidate_harvest_skipped")
    /\ HarvestEnabled(by_id, id_by_fp, uuids, auto_cfg, logs, gauges, now).created >= 1

\* values of min_samples a config may carry
MinSamplesInputs == {1, 20, 26, 201}

\* C9: with enabled = true, when fewer events are retrieved than min_samples,
\* harvest returns created = 0, leaves the store as it was and sets the gauge
\* experience_auto_candidate_last_created to 0.
C9_InsufficientSamplesCreateNothing ==
    \A cfg \in Configs, ms \in MinSamplesInputs :
        LET c == [cfg EXCEPT !.enabled = TRUE, !.min_samples = ms]
            h == Harvest(by_id, id_by_fp, uuids, c, logs, gauges, now)
        IN Samples(c) < ms =>
            /\ h.created = 0
            /\ h.by = by_id
            /\ h.idx = id_by_fp
            /\ "experience_auto_candidate_last_created" \in DOMAIN h.gauges
            /\ h.gauges["experience_auto_candidate_last_created"] = 0

\* C9: a harvest created a rule, the clock left the window, and the next harvest
\* found too few samples and set the gauge back to 0.
C9_Witness ==
    /\ auto_cfg.enabled
    /\ by_id # <<>>
    /\ Samples(auto_cfg) < auto_cfg.min_samples
    /\ LastLogged("auto_candidate_harvest_skipped")
    /\ "experience_auto_candidate_last_created" \in DOMAIN gauges
    /\ gauges["experience_auto_candidate_last_created"] = 0
    /\ gauges["experience_candidates_total"] >= 1

\* the events of the ring with level WARN or ERROR
Alarms == SelectSeq(logs, LAMBDA r : r.level \in {"WARN", "ERROR"})

\* C10, as stated: from an empty store and a log ring that holds 25 WARN events
\* of module memory inside the window and no other WARN or ERROR event, harvest
\* with enabled = true, min_count = 3, min_samples = 20 returns created = 1, the
\* store then holds exactly one rule, a draft tagged memory and WARN, and the
\* gauge experience_auto_candidate_last_created reads 1.
C10_ExampleScenarioCreatesOneDraft ==
    LET cfg == [DefaultConfig EXCEPT !.enabled = TRUE, !.min_count = 3, !.min_samples = 20]
        h == Harvest(by_id, id_by_fp, uuids, cfg, logs, gauges, now)
    IN (/\ by_id = <<>>
        /\ id_by_fp = <<>>
        /\ Len(Alarms) = 1
        /\ Alarms[1].level = "WARN"
        /\ Alarms[1].module = "memory"
        /\ Alarms[1].n = 25
        /\ Alarms[1].ts >= now - cfg.since_seconds) =>
            /\ h.created = 1
            /\ Count(h.by) = 1
            /\ \A k \in DOMAIN h.by :
                    /\ h.by[k].status = "draft"
                    /\ {<<"memory">>, <<"WARN">>} \subseteq SeqToSet(h.by[k].tags)
            /\ Gauge(h.gauges, "experience_auto_candidate_last_created") = 1

\* values of max_candidates a config may carry
MaxCandidatesInputs == {0, 1, 2, 10}

\* C11, as stated: for every value of max_candidates from 0 on and every log
\* ring, a harvest returns created <= max_candidates and leaves at most
\* max_candidates more rules in the store than it found.
C11_HarvestCreatesAtMostMaxCandidates ==
    \A cfg \in Configs, m \in MaxCandidatesInputs :
        LET c == [cfg EXCEPT !.enabled = TRUE, !.max_candidates = m]
            h == Harvest(by_id, id_by_fp, uuids, c, logs, gauges, now)
        IN /\ h.created <= m
           /\ Count(h.by) - Count(by_id) <= m

-----------------------------------------------------------------------------
(* Properties of search, export and import: SpecCatalog. *)

\* the (title, content, category, tags) tuples of the rules of a store
Tuples(by) ==
    {<<by[k].title, by[k].content, by[k].category, by[k].tags>> : k \in DOMAIN by}

\* what GET /snapshot/export?compact=true lists: every rule in compact form
Exported == [i \in 1..Len(by_id_keys) |-> to_compact(list_all(by_id, by_id_keys)[i])]

\* the store import_snapshot leaves when an empty store is sent the export as
\* items_compact, with upsert and dedup enabled
Reimported ==
    import_items(<<>>, <<>>, <<>>, 0,
                 [i \in 1..Len(Exported) |-> from_compact(Exported[i])], TRUE, TRUE, now)

\* C12, as stated: for every store content, exporting all rules in compact form
\* and importing the export into an empty store with upsert and dedup enabled
\* yields a store with the same set of (title, content, category, tags) tuples.
C12_CompactRoundTripKeepsTuples ==
    Tuples(Reimported.by) = Tuples(by_id)

\* the rules a caller may add to the catalog, under no identifier or under one
\* the store has handed out
CatalogInputs == CatalogWith({None} \cup KnownIds)

\* searches by text: a text, with or without the other filters
TextQueries == {f \in Queries : f.q # None /\ f.tag = None}

\* the largest number of rules a search with this limit returns
Clamped(limit) == Max(1, Min(limit, 200))

\* a filter by category or status is supplied and the rule does not have that
\* category or status, compared without regard to case and outer blanks
Excluded(r, f) ==
    \/ StripWord(f.category) # "" /\ LowerWord(r.category) # LowerWord(StripWord(f.category))
    \/ StripWord(f.status) # "" /\ LowerWord(r.status) # LowerWord(StripWord(f.status))

RECURSIVE CommaJoined(_)
\* the tags of a rule, lower-cased and joined by commas
CommaJoined(tags) ==
    IF tags = <<>> THEN <<>>
    ELSE IF Tail(tags) = <<>> THEN Lower(Head(tags))
    ELSE Lower(Head(tags)) \o <<",">> \o CommaJoined(Tail(tags))

\* the rule r satisfies every filter the search f supplies; a filter is supplied
\* when it is not blank, and is compared trimmed and lower-cased
Satisfies(r, f) ==
    /\ StripWord(f.category) # "" => LowerWord(r.category) = LowerWord(StripWord(f.category))
    /\ StripWord(f.status) # "" => LowerWord(r.status) = LowerWord(StripWord(f.status))
    /\ Strip(f.tag) # <<>> => Contains(CommaJoined(r.tags), Normalize(f.tag))
    /\ Strip(f.q) # <<>> =>
            \/ Contains(Lower(r.title), Normalize(f.q))
            \/ Contains(Lower(r.content), Normalize(f.q))

\* the stored rules that satisfy every filter of the search f
Matching(f) == {k \in DOMAIN by_id : Satisfies(by_id[k], f)}

\* C14: every rule search returns is a stored rule that satisfies every supplied
\* filter (category and status equal without regard to case, tag a substring of
\* the comma-joined lower-cased tags, text a substring of the lower-cased title
\* or content), and when no more rules satisfy them than the clamped limit the
\* search returns each of them, once.
C14_SearchReturnsTheMatchingRules ==
    \A f \in Queries :
        LET res == search(by_id, by_id_keys, f.q, f.tag, f.category, f.status, f.limit)
        IN /\ \A i \in 1..Len(res) : \E k \in Matching(f) : by_id[k] = res[i]
           /\ Cardinality(Matching(f)) <= Clamped(f.limit) =>
                /\ \A k \in Matching(f) : \E i \in 1..Len(res) : res[i] = by_id[k]
                /\ Len(res) = Cardinality(Matching(f))

\* C14: the store holds two rules titled "b"; a search for "b" with tag "t" and
\* status " Draft " returns only the draft, the same search with category "ops"
\* and tag "T,u" returns only the other one, and the search for "b" alone
\* returns both.
C14_Witness ==
    /\ Count(by_id) = 2
    /\ LET f == search(by_id, by_id_keys, <<"b">>, <<"t">>, "", " Draft ", 50)
           g == search(by_id, by_id_keys, <<"b">>, <<"T", ",", "u">>, "ops", "", 50)
           h == search(by_id, by_id_keys, <<"b">>, None, "", "", 50)
       IN /\ Len(f) = 1 /\ f[1].status = "draft"
          /\ Len(g) = 1 /\ g[1].category = "Ops"
          /\ Len(h) = 2

\* 20 times the score of the rule r for the search f: 2.0 when the text matched
\* the title, plus 1.0 when it matched the content, plus 0.5 * confidence plus
\* 0.5 * weight, with confidence and weight in tenths
RankScore(r, f) ==
    (IF Strip(f.q) # <<>> /\ Contains(Lower(r.title), Normalize(f.q)) THEN 2 * 20 ELSE 0)
        + (IF Strip(f.q) # <<>> /\ Contains(Lower(r.content), Normalize(f.q)) THEN 20 ELSE 0)
        + r.confidence + r.weight

\* the place of the key k in the order in which the store holds its rules
Place(k) == CHOOSE i \in 1..Len(by_id_keys) : by_id_keys[i] = k

\* the rule under key j comes before the rule under key k in the ranking of the
\* search f: its score is greater, or equal with j held earlier by the store
Outranks(j, k, f) ==
    \/ RankScore(by_id[j], f) > RankScore(by_id[k], f)
    \/ RankScore(by_id[j], f) = RankScore(by_id[k], f) /\ Place(j) < Place(k)

\* C15: the result of a search is the first clamp(limit, 1, 200) of the matching
\* rules in the order of non-increasing score, rules of equal score in the order
\* in which the store holds them: it has min(clamp, number of matching rules)
\* elements, each a matching rule, each outranking the next, and each
\* outranking every matching rule that was left out.
C15_SearchRanksByScoreThenStoreOrder ==
    \A f \in Queries :
        LET res == search(by_id, by_id_keys, f.q, f.tag, f.category, f.status, f.limit)
            key(i) == res[i].id
        IN /\ Len(res) = Min(Clamped(f.limit), Cardinality(Matching(f)))
           /\ \A i \in 1..Len(res) : key(i) \in Matching(f) /\ by_id[key(i)] = res[i]
           /\ \A i \in 1..Len(res), j \in 1..Len(res) : i < j => Outranks(key(i), key(j), f)
           /\ \A i \in 1..Len(res), k \in Matching(f) :
                (\A j \in 1..Len(res) : key(j) # k) => Outranks(key(i), k, f)

\* C15: the store holds two rules of equal score for the text "a", the one with
\* the later identifier first; the search returns them in that order, and with
\* limit 1 only the first.
C15_Witness ==
    /\ by_id_keys = << <<"u", 2>>, <<"u", 1>> >>
    /\ LET both == search(by_id, by_id_keys, <<"a">>, None, "", "", 50)
           one == search(by_id, by_id_keys, <<"a">>, None, "", "", 1)
       IN /\ Len(both) = 2
          /\ both[1].id = <<"u", 2>> /\ both[2].id = <<"u", 1>>
          /\ Score(both[1], <<"a">>) = Score(both[2], <<"a">>)
          /\ one = <<both[1]>>

-----------------------------------------------------------------------------
(* Failures of update, approve and reject: SpecWorkflow. *)

\* patches of update_rule that ExperienceRule(**data) rejects
InvalidPatches == [{"status"} -> {<<NotAString>>}]

\* C16: update, approve and reject on an identifier that is not in the store
\* signal NotFound and leave the identity map and the fingerprint index as they
\* were; an update of a stored rule that fails while the patched rule is built
\* raises, signals no NotFound and leaves both as they were.
C16_FailedUpdateChangesNothing ==
    /\ \A id \in PathIds :
        id \notin DOMAIN by_id =>
            /\ \A patch \in Patches :
                LET s == StoreUpdate(by_id, id_by_fp, id, patch, now)
                    u == update_rule(by_id, id_by_fp, logs, id, patch, now)
                IN /\ s.raised /\ s.not_found /\ s.by = by_id /\ s.idx = id_by_fp
                   /\ u.raised /\ u.not_found /\ u.by = by_id /\ u.idx = id_by_fp
            /\ LET a == approve_candidate(by_id, id_by_fp, logs, gauges, id, now)
                   r == reject_candidate(by_id, id_by_fp, logs, gauges, id, now)
               IN /\ a.raised /\ a.not_found /\ a.by = by_id /\ a.idx = id_by_fp
                  /\ r.raised /\ r.not_found /\ r.by = by_id /\ r.idx = id_by_fp
    /\ \A id \in DOMAIN by_id, patch \in InvalidPatches :
        LET s == StoreUpdate(by_id, id_by_fp, id, patch, now)
        IN s.raised /\ ~s.not_found /\ s.by = by_id /\ s.idx = id_by_fp

\* C16: an approve has been answered with not-found and the store holds a rule;
\* an update of that rule with a number as its status fails, and an approve and
\* a reject of another identifier are answered with not-found.
C16_Witness ==
    /\ by_id # <<>>
    /\ \E i \in 1..Len(logs) : logs[i].message = "candidate not found for approve"
    /\ \E id \in DOMAIN by_id, patch \in InvalidPatches :
        LET u == update_rule(by_id, id_by_fp, logs, id, patch, now)
        IN /\ u.raised /\ ~u.not_found
           /\ u.logs[Len(u.logs)].message = "update rule failed"
    /\ \E id \in PathIds :
        /\ id \notin DOMAIN by_id
        /\ approve_candidate(by_id, id_by_fp, logs, gauges, id, now).not_found
        /\ reject_candidate(by_id, id_by_fp, logs, gauges, id, now).not_found

-----------------------------------------------------------------------------
(* Frame properties of delete and add: Spec. *)

\* C17: delete of a stored identifier returns true and removes the rule, so that
\* get reports not-found; it removes the index entry of the fingerprint of that
\* rule only when the entry maps to the identifier, and leaves every other rule
\* and every other index entry as it was; delete of an unknown identifier
\* returns false and changes nothing.
C17_DeleteRemovesOnlyThatRule ==
    \A id \in CallIds :
        LET d == StoreDelete(by_id, id_by_fp, id)
        IN IF id \in DOMAIN by_id
           THEN /\ d.ret
                /\ StoreGet(d.by, id) = None
                /\ DOMAIN d.by = DOMAIN by_id \ {id}
                /\ \A k \in DOMAIN d.by : d.by[k] = by_id[k]
                /\ \A fp \in DOMAIN id_by_fp :
                        IF fp = by_id[id].fingerprint /\ id_by_fp[fp] = id
                        THEN fp \notin DOMAIN d.idx
                        ELSE fp \in DOMAIN d.idx /\ d.idx[fp] = id_by_fp[fp]
                /\ DOMAIN d.idx \subseteq DOMAIN id_by_fp
           ELSE /\ ~d.ret
                /\ d.by = by_id
                /\ d.idx = id_by_fp

\* C17: the store holds two rules of one fingerprint, which the index maps to
\* the second; deleting the first leaves that entry, deleting the second removes
\* it, and deleting a third identifier returns false.
C17_Witness ==
    /\ Count(by_id) = 2
    /\ \E j \in DOMAIN by_id, k \in DOMAIN by_id :
        /\ j # k
        /\ by_id[j].fingerprint = by_id[k].fingerprint
        /\ by_id[j].fingerprint \in DOMAIN id_by_fp
        /\ id_by_fp[by_id[j].fingerprint] = k
        /\ StoreDelete(by_id, id_by_fp, j).ret
        /\ StoreDelete(by_id, id_by_fp, j).idx = id_by_fp
        /\ by_id[k].fingerprint \notin DOMAIN StoreDelete(by_id, id_by_fp, k).idx
    /\ \E id \in CallIds : ~StoreDelete(by_id, id_by_fp, id).ret

\* a patch that sends the empty string as created_at
StampPatches == [{"created_at"} -> {<<None>>}]

\* the stores an add may find: the current one, and the one an update of the
\* rule id with a patch of StampPatches leaves
StoresBeforeAdd(id) ==
    {[by |-> by_id, idx |-> id_by_fp]}
        \cup {[by |-> StoreUpdate(by_id, id_by_fp, id, patch, now).by,
               idx |-> StoreUpdate(by_id, id_by_fp, id, patch, now).idx] :
                    patch \in StampPatches}

\* rules a caller adds under a stored identifier, with or without a creation
\* timestamp of their own
Replacements ==
    {r \in InputRules : r.id \in DOMAIN by_id}
        \cup {[r EXCEPT !.created_at = <<now + 1>>] : r \in {x \in InputRules : x.id \in DOMAIN by_id}}

-----------------------------------------------------------------------------
(* The counts of import_items: SpecCatalog. *)

\* batches of one rule of the catalog, with or without identifier, and of such
\* a rule followed by one without identifier
Batches ==
    {<<r>> : r \in CatalogInputs}
        \cup {<<r1, r2>> : r1 \in CatalogInputs, r2 \in CatalogWith({None})}

\* 1 when the call of add raised, else 0
Raised(a) == IF a.raised THEN 1 ELSE 0

\* the number of uuids stored after an add of rule that began with n of them
UuidsAfter(n, rule, a) == IF a.stored /\ rule.id = None THEN n + 1 ELSE n

\* C19: import_items calls add for every item of the batch in order, each on the
\* store the item before it left, whether that add raised or not: it returns
\* normally, the store it leaves is the one the last add leaves, dup is the
\* number of adds that raised and ok the number of the others, so that ok + dup
\* is the number of items.
C19_ImportAddsEveryItemAndCountsFailures ==
    \A items \in Batches, upsert \in BOOLEAN, dedup \in BOOLEAN :
        LET r == import_items(by_id, by_id_keys, id_by_fp, uuids, items, upsert, dedup, now)
            a1 == StoreAdd(by_id, id_by_fp, items[1], dedup, upsert,
                           <<"u", uuids + 1>>, now)
            n1 == UuidsAfter(uuids, items[1], a1)
            a2 == StoreAdd(a1.by, a1.idx, items[2], dedup, upsert, <<"u", n1 + 1>>, now)
        IN /\ r.ok + r.dup = Len(items)
           /\ Len(items) = 1 =>
                /\ r.by = a1.by /\ r.idx = a1.idx
                /\ r.dup = Raised(a1)
           /\ Len(items) = 2 =>
                /\ r.by = a2.by /\ r.idx = a2.idx
                /\ r.dup = Raised(a1) + Raised(a2)

\* C19: the index names an identifier that is gone under the fingerprint of the
\* rule titled "b" with content "a"; a batch of that rule and of the rule with
\* content "x" and category "Ops", imported with dedup, counts the first as a
\* failure and stores the second.
C19_Witness ==
    \E r1 \in CatalogWith({None}), r2 \in CatalogWith({None}) :
        /\ r1.content = <<"a">> /\ r2.category = "Ops"
        /\ StoreAdd(by_id, id_by_fp, r1, TRUE, TRUE, <<"u", uuids + 1>>, now).raised
        /\ LET r == import_items(by_id, by_id_keys, id_by_fp, uuids, <<r1, r2>>,
                                 TRUE, TRUE, now)
           IN /\ r.ok = 1 /\ r.dup = 1
              /\ Cardinality(DOMAIN r.by) = Cardinality(DOMAIN by_id) + 1
              /\ \E k \in DOMAIN r.by \ DOMAIN by_id : r.by[k].category = "Ops"

\* C20: in import_items with dedup, of a batch of rules without identifier, ok
\* is the number of rows the batch newly stored, and a single rule whose
\* fingerprint the index holds for a stored rule is counted in dup, not in ok.
C20_DedupHitsCountAsDuplicates ==
    \A items \in ImportBatches, upsert \in BOOLEAN :
        LET r == import_items(by_id, by_id_keys, id_by_fp, uuids, items, upsert, TRUE, now)
            a == StoreAdd(by_id, id_by_fp, items[1], TRUE, upsert, <<"u", uuids + 1>>, now)
        IN /\ r.ok = Cardinality(DOMAIN r.by \ DOMAIN by_id)
           /\ (Len(items) = 1 /\ ~a.raised /\ ~a.stored) => (r.ok = 0 /\ r.dup = 1)

-----------------------------------------------------------------------------
(* The config of the harvester: SpecHarvest. *)

\* JSON objects of a PUT that name any of the fields, with values that differ
\* from the defaults
ClaimBodies ==
    {[f \in D |-> cfg[f]] :
        cfg \in [enabled : {TRUE}, min_count : {2}, include_levels : {<<"info", "WARN">>},
                 since_seconds : {600}, min_confidence : {5}, max_candidates : {0},
                 min_samples : {1}],
        D \in SUBSET DOMAIN DefaultConfig}

\* C21: after a PUT of a config, a GET returns the submitted value of every
\* field the body names and the default value of every field it leaves out,
\* whatever the config held before.
C21_ConfigUpdateReplacesWholesale ==
    \A body \in ClaimBodies :
        LET got == get_auto_candidate_config(update_auto_candidate_config(body))
        IN \A f \in DOMAIN DefaultConfig :
            /\ got[f] = IF f \in DOMAIN body THEN body[f] ELSE DefaultConfig[f]
            /\ (f \notin DOMAIN body /\ auto_cfg[f] # DefaultConfig[f]) =>
                    got[f] # auto_cfg[f]

\* C21: the config holds enabled = true and levels other than the defaults; a
\* PUT that names only min_count gives a config with that min_count, disabled
\* and with the default levels.
C21_Witness ==
    /\ auto_cfg.enabled
    /\ auto_cfg.include_levels # DefaultConfig.include_levels
    /\ LET got == get_auto_candidate_config(update_auto_candidate_config([min_count |-> 2]))
       IN /\ got.min_count = 2
          /\ ~got.enabled
          /\ got.include_levels = DefaultConfig.include_levels

-----------------------------------------------------------------------------
(* The log ring: SpecLogs. *)

\* numbers of appends in a row that fill the ring and overflow it
AppendCounts == {1, 1999, 2001}

RECURSIVE EventAt(_, _)
\* the i-th event of the ring, counted from the oldest
EventAt(buf, i) ==
    IF i <= Head(buf).n
    THEN [level |-> Head(buf).level, module |-> Head(buf).module,
          message |-> Head(buf).message, tags |-> Head(buf).tags,
          created |-> Head(buf).created, ts |-> Head(buf).ts]
    ELSE EventAt(Tail(buf), i - Head(buf).n)

RECURSIVE RunStarts(_, _)
\* the places of the ring, counted from first, where a run of equal events
\* begins
RunStarts(buf, first) ==
    IF buf = <<>> THEN {}
    ELSE {first} \cup RunStarts(Tail(buf), first + Head(buf).n)

\* the ring after holds exactly the Min(len before + k, capacity) newest
\* events in append order: its k newest places (all of them when k exceeds the
\* capacity) hold the event made of e at time t, and the places before them
\* the newest events of the ring before, unchanged and in the same order
HoldsNewest(before, after, e, k, t) ==
    LET l0 == LogLen(before)
        l1 == LogLen(after)
        gone == l0 + k - l1
        made == [level |-> UpperWord(e.level), module |-> e.module,
                 message |-> e.message, tags |-> e.tags, created |-> 0, ts |-> t]
        places == (RunStarts(after, 1) \cup {b - gone : b \in RunStarts(before, 1)}
                        \cup {1, l1 - k, l1 - k + 1, l1}) \cap (1..l1)
    IN /\ l1 = Min(l0 + k, LogMaxLen)
       /\ \A i \in places :
            EventAt(after, i) = IF i > l1 - k THEN made ELSE EventAt(before, i + gone)

\* C22: the ring never holds more than 2000 events; k appends of an event,
\* followed by j appends of another, each leave the ring holding the newest
\* Min(len + appends, 2000) events in append order, the events that stay being
\* unchanged; a search in between leaves the ring as it is (LogSearch reads
\* the ring and returns events, it writes nothing).
C22_RingHoldsNewestEventsInOrder ==
    /\ LogLen(logs) <= LogMaxLen
    /\ \A e1 \in AppendedEvents, e2 \in AppendedEvents, k \in AppendCounts, j \in AppendCounts :
        LET b1 == LogBufferAdd(logs, e1.level, e1.message, e1.module, e1.tags, k, now)
            b2 == LogBufferAdd(b1, e2.level, e2.message, e2.module, e2.tags, j, now + 1)
        IN /\ HoldsNewest(logs, b1, e1, k, now)
           /\ HoldsNewest(b1, b2, e2, j, now + 1)

\* C22: the ring holds 300 events of two kinds; 1999 appends of a third event
\* push the 299 oldest out, the newest of the old events stays as the oldest,
\* and one more append pushes it out too.
C22_Witness ==
    /\ LogLen(logs) = 300
    /\ Len(logs) = 2
    /\ LET e == [level |-> "warn", message |-> "slow", module |-> "memory",
                 tags |-> <<"db", "io">>]
           b1 == LogBufferAdd(logs, e.level, e.message, e.module, e.tags, 1999, now)
           b2 == LogBufferAdd(b1, e.level, e.message, e.module, e.tags, 1, now)
       IN /\ LogLen(b1) = LogMaxLen
          /\ EventAt(b1, 1) = EventAt(logs, 300)
          /\ EventAt(b1, 2).message = "slow"
          /\ EventAt(b1, 2).level = "WARN"
          /\ LogLen(b2) = LogMaxLen
          /\ EventAt(b2, 1).message = "slow"

\* arguments of a log search
LogQueries ==
    [q : {"", "slow", "lo", "b,i", "GET", "get"},
     level : {None, <<"warn">>, <<"INFO">>},
     since_seconds : {0, 900},
     limit : {0, 1, 50, 300}]

\* the event r has the level the search f asks for, compared in upper case, and
\* the text of f is part of its message or of its tags joined by commas
MatchesLevelAndText(r, f) ==
    /\ f.level # None => r.level = UpperWord(f.level[1])
    /\ f.q # "" => \/ Contains(Chars(r.message), Chars(f.q))
                   \/ Contains(JoinTags(r.tags), Chars(f.q))

\* the event r is not older than the window of the search f
InWindow(r, f) ==
    f.since_seconds # 0 => r.ts >= now - Max(1, Min(f.since_seconds, MaxRangeSeconds))

\* res holds the newest Clamped(limit) events of the runs matching (given newest
\* first), in that order
NewestOf(res, matching, limit) ==
    /\ LogLen(res) = Min(LogLen(matching), Clamped(limit))
    /\ \A i \in (RunStarts(res, 1) \cup RunStarts(matching, 1)) \cap (1..LogLen(res)) :
            EventAt(res, i) = EventAt(matching, i)

\* C23, as stated: a log search returns the newest clamp(limit, 1, 200) events
\* that match the severity filter and the text query, newest first.
C23_LogSearchReturnsNewestMatching ==
    \A f \in LogQueries :
        NewestOf(LogSearch(logs, f.q, f.level, f.since_seconds, f.limit, now),
                 SelectSeq(Reverse(logs), LAMBDA r : MatchesLevelAndText(r, f)),
                 f.limit)

\* C23, amended: a log search returns the newest clamp(limit, 1, 200) events
\* that match the severity filter and the text query and are not older than the
\* window of sinceSeconds (clamped to 1 .. one year) when one is given, newest
\* first.
C23_LogSearchReturnsNewestMatchingInWindow ==
    \A f \in LogQueries :
        NewestOf(LogSearch(logs, f.q, f.level, f.since_seconds, f.limit, now),
                 SelectSeq(Reverse(logs),
                           LAMBDA r : MatchesLevelAndText(r, f) /\ InWindow(r, f)),
                 f.limit)

\* C23: the ring holds 150 events "slow" tagged db and io, then 150 requests,
\* then 150 events "slow" again; the search for "b,i" with limit 300 returns
\* 200 events "slow", the 150 newest and 50 of the oldest run, the search for
\* "GET" with level INFO and limit 1 one request, and the search for "slow"
\* with level warn within 900 seconds the 150 newest alone, the others being
\* older.
C23_Witness ==
    /\ Len(logs) = 3
    /\ logs[1].message = "slow" /\ logs[2].message = "request" /\ logs[3].message = "slow"
    /\ logs[1].ts < logs[3].ts
    /\ logs[3].ts = now
    /\ LET res == LogSearch(logs, "b,i", None, 0, 300, now)
           one == LogSearch(logs, "GET", <<"INFO">>, 0, 1, now)
           win == LogSearch(logs, "slow", <<"warn">>, 900, 300, now)
       IN /\ LogLen(res) = 200
          /\ Len(res) = 2
          /\ res[1].ts = logs[3].ts /\ res[1].n = 150
          /\ res[2].ts = logs[1].ts /\ res[2].n = 50
          /\ LogLen(one) = 1
          /\ one[1].message = "request"
          /\ LogLen(win) = 150
          /\ win[1].ts = now

-----------------------------------------------------------------------------
(* The status of stored rules: SpecWorkflow. *)

\* JSON objects a caller POSTs to /rules: with any word as status
AddRulePayloads ==
    [title : {<<"a">>, <<>>}, content : {<<"x">>}, category : {""},
     status : {"", "draft", "archived"}]

\* patches of the status a caller PUTs to /rules/{id}: with any word
StatusPatches == [{"status"} -> {<<"deprecated">>, <<"archived">>}]

\* every rule of the store by has a status in {active, draft, deprecated}
StatusesKnown(by) == \A k \in DOMAIN by : by[k].status \in Statuses

\* C24: every stored rule has a status in {active, draft, deprecated}, and
\* stays so after an add_rule and after an update_rule, whatever the status
\* the caller sent.
C24_StoredStatusIsKnown ==
    /\ StatusesKnown(by_id)
    /\ \A payload \in AddRulePayloads, dedup \in BOOLEAN :
            StatusesKnown(add_rule(by_id, id_by_fp, uuids, logs, gauges, payload,
                                   dedup, FALSE, now).by)
    /\ \A id \in CallIds, patch \in StatusPatches :
            StatusesKnown(update_rule(by_id, id_by_fp, logs, id, patch, now).by)

-----------------------------------------------------------------------------
(* Adds without dedup: Spec. *)

\* rules without identifier, with or without a fingerprint of the caller
UnnamedRules == {r \in InputRules : r.id = None}

\* the two adds without dedup, the second on the store the first left, of the
\* rules r1 and r2, store two rules with distinct identifiers and equal
\* fingerprints
StoresTwoOfOneFingerprint(r1, r2, upsert) ==
    LET a1 == StoreAdd(by_id, id_by_fp, r1, FALSE, upsert, <<"u", uuids + 1>>, now)
        a2 == StoreAdd(a1.by, a1.idx, r2, FALSE, upsert, <<"u", uuids + 2>>, now)
    IN /\ a1.stored /\ a2.stored
       /\ a1.ret[1].id # a2.ret[1].id
       /\ {a1.ret[1].id, a2.ret[1].id} \subseteq DOMAIN a2.by
       /\ Cardinality(DOMAIN a2.by) = Cardinality(DOMAIN by_id) + 2
       /\ a2.by[a1.ret[1].id].fingerprint = a2.by[a2.ret[1].id].fingerprint

\* C25, as stated: two successive adds without dedup of rules that carry the
\* same title and content and no identifier store two rules with distinct
\* identifiers and equal fingerprints.
C25_NoDedupStoresTwoWithEqualFingerprints ==
    \A r1 \in UnnamedRules, r2 \in UnnamedRules, upsert \in BOOLEAN :
        (r1.title = r2.title /\ r1.content = r2.content) =>
            StoresTwoOfOneFingerprint(r1, r2, upsert)

\* C25, amended: two successive adds without dedup of rules that carry the
\* same title and content, no identifier, and either no fingerprint or the
\* same one, store two rules with distinct identifiers and equal fingerprints.
C25_NoDedupStoresTwoOfSameSuppliedFingerprint ==
    \A r1 \in UnnamedRules, r2 \in UnnamedRules, upsert \in BOOLEAN :
        (r1.title = r2.title /\ r1.content = r2.content
                /\ r1.fingerprint = r2.fingerprint) =>
            StoresTwoOfOneFingerprint(r1, r2, upsert)

\* C25: the store holds the rule titled "a" once; two adds of it without dedup
\* store it twice more under two new identifiers, and the three rules have one
\* fingerprint.
C25_Witness ==
    \E r \in PlainRules :
        /\ r.title = <<"a">>
        /\ Cardinality(DOMAIN by_id) = 1
        /\ \A k \in DOMAIN by_id : by_id[k].title = <<"a">> /\ by_id[k].fingerprint \notin SuppliedFingerprints
        /\ LET a1 == StoreAdd(by_id, id_by_fp, r, FALSE, FALSE, <<"u", uuids + 1>>, now)
               a2 == StoreAdd(a1.by, a1.idx, r, FALSE, FALSE, <<"u", uuids + 2>>, now)
           IN /\ Cardinality(DOMAIN a2.by) = 3
              /\ a1.ret[1].id # a2.ret[1].id
              /\ \A k \in DOMAIN a2.by : a2.by[k].fingerprint = a1.ret[1].fingerprint

-----------------------------------------------------------------------------
(* The listing of candidates: SpecWorkflow. *)

\* limits of a listing: limit: int = Query(default=50, ge=1, le=200)
ListLimits == {1, 50}

\* the rules GET /candidates returns from the store by, as a set
Listed(by, keys, limit) ==
    SeqToSet(list_candidates(by, keys, logs, limit, now).items)

\* the stored rules whose status is draft
Drafts(by) == {by[k] : k \in {j \in DOMAIN by : by[j].status = "draft"}}

\* the listing holds stored rules whose status is draft, each once: all of
\* them when the limit allows, else as many as the limit
ListsDrafts ==
    \A limit \in ListLimits :
        LET l == list_candidates(by_id, by_id_keys, logs, limit, now)
        IN /\ SeqToSet(l.items) \subseteq Drafts(by_id)
           /\ \A i \in 1..Len(l.items), j \in 1..Len(l.items) :
                l.items[i].id = l.items[j].id => i = j
           /\ l.count = Min(Cardinality({k \in DOMAIN by_id : by_id[k].status = "draft"}),
                            limit)

\* a rule that an approve or a reject has answered with is not listed after it
ReviewedLeaveListing ==
    \A id \in PathIds :
        LET a == approve_candidate(by_id, id_by_fp, logs, gauges, id, now)
            r == reject_candidate(by_id, id_by_fp, logs, gauges, id, now)
        IN /\ ~a.raised =>
                \A x \in Listed(a.by, by_id_keys, 50) : x.id # a.ret[1].id
           /\ ~r.raised =>
                \A x \in Listed(r.by, by_id_keys, 50) : x.id # r.ret[1].id

\* C26, as stated: the listing of candidates holds, up to the limit, exactly
\* the rules whose status is draft; the rule a candidate submission returns is
\* listed after it, and a rule is not listed once approved or rejected.
C26_ListingHoldsSubmittedUntilReviewed ==
    /\ ListsDrafts
    /\ ReviewedLeaveListing
    /\ \A req \in CandidateRequests, dedup \in BOOLEAN, upsert \in BOOLEAN :
        LET r == add_candidate(by_id, id_by_fp, uuids, logs, gauges, req, dedup, upsert, now)
            keys == KeysAfter(by_id_keys, r.by, IF r.stored THEN <<r.ret[1].id>> ELSE <<>>)
        IN ~r.raised => r.ret[1] \in Listed(r.by, keys, 50)

\* C26, amended: the listing of candidates holds, up to the limit, exactly the
\* rules whose status is draft; a rule that a candidate submission stores is
\* listed after it (a submission answered with a rule the store already held
\* lists that rule only if it is a draft), and a rule is not listed once
\* approved or rejected.
C26_ListingHoldsStoredCandidateUntilReviewed ==
    /\ ListsDrafts
    /\ ReviewedLeaveListing
    /\ \A req \in CandidateRequests, dedup \in BOOLEAN, upsert \in BOOLEAN :
        LET r == add_candidate(by_id, id_by_fp, uuids, logs, gauges, req, dedup, upsert, now)
            keys == KeysAfter(by_id_keys, r.by, IF r.stored THEN <<r.ret[1].id>> ELSE <<>>)
        IN ~r.raised =>
            (r.ret[1] \in Listed(r.by, keys, 50)) = (r.stored \/ r.ret[1].status = "draft")

\* C26: the store holds one rule, a draft that came in as a candidate, and the
\* listing holds it; a further submission is stored and listed with it, and
\* after its approve the draft is listed no more.
C26_Witness ==
    /\ Cardinality(DOMAIN by_id) = 1
    /\ \E k \in DOMAIN by_id :
        /\ by_id[k].status = "draft"
        /\ Listed(by_id, by_id_keys, 50) = {by_id[k]}
        /\ ~approve_candidate(by_id, id_by_fp, logs, gauges, k, now).raised
        /\ Listed(approve_candidate(by_id, id_by_fp, logs, gauges, k, now).by,
                  by_id_keys, 50) = {}
    /\ \E req \in CandidateRequests :
        LET r == add_candidate(by_id, id_by_fp, uuids, logs, gauges, req, FALSE, FALSE, now)
            keys == KeysAfter(by_id_keys, r.by, IF r.stored THEN <<r.ret[1].id>> ELSE <<>>)
        IN /\ r.stored /\ req.id = None
           /\ Cardinality(Listed(r.by, keys, 50)) = 2
           /\ r.ret[1] \in Listed(r.by, keys, 50)

-----------------------------------------------------------------------------
(* The dashboard tile of the harvester: SpecHarvest. *)

\* C27: after a harvest call that returned, whatever path it took, the tile
\* auto_candidate_last_created of the dashboard equals the created value the
\* call returned.
C27_TileShowsLastCreated ==
    LET h == Harvest(by_id, id_by_fp, uuids, auto_cfg, logs, gauges, now)
    IN h.path # "raised" => DashboardLastCreated(h.logs, now) = h.created

-----------------------------------------------------------------------------
(* The gauge of drafts: SpecWorkflow. *)

\* by and g are the store and the gauges a handler leaves: when the handler
\* has changed the number of drafts, the gauge experience_candidates_total is
\* that number
GaugeFollows(by, g) ==
    DraftCount(by) # DraftCount(by_id) =>
        Gauge(g, "experience_candidates_total") = DraftCount(by)

\* the candidate handlers and delete_rule leave the gauge of drafts equal to
\* the number of drafts whenever they change that number
WorkflowGaugeFollows ==
    /\ \A req \in CandidateRequests, dedup \in BOOLEAN, upsert \in BOOLEAN :
        LET r == add_candidate(by_id, id_by_fp, uuids, logs, gauges, req, dedup, upsert, now)
        IN GaugeFollows(r.by, r.gauges)
    /\ \A id \in PathIds :
        /\ LET r == approve_candidate(by_id, id_by_fp, logs, gauges, id, now)
           IN GaugeFollows(r.by, r.gauges)
        /\ LET r == reject_candidate(by_id, id_by_fp, logs, gauges, id, now)
           IN GaugeFollows(r.by, r.gauges)
        /\ LET r == delete_rule(by_id, id_by_fp, logs, gauges, id, now)
           IN GaugeFollows(r.by, r.gauges)

\* C28: after every handler call that changes the number of draft rules
\* (candidate submission, approve, reject, delete, and add_rule and update_rule
\* with a status), the gauge experience_candidates_total equals the number of
\* stored rules whose status is draft.
C28_DraftGaugeFollowsEveryChange ==
    /\ WorkflowGaugeFollows
    /\ \A payload \in AddRulePayloads, dedup \in BOOLEAN :
        LET r == add_rule(by_id, id_by_fp, uuids, logs, gauges, payload, dedup, FALSE, now)
        IN GaugeFollows(r.by, r.gauges)
    /\ \A id \in PathIds, patch \in Patches :
        LET r == update_rule(by_id, id_by_fp, logs, id, patch, now)
        IN GaugeFollows(r.by, gauges)

-----------------------------------------------------------------------------
(* The keys of harvested rules: SpecHarvest. *)

\* values of min_count and of include_levels a config may carry
MinCountInputs == {0, 3, 26}
IncludeLevelsInputs == {<<"ERROR", "WARN">>, <<"info", "WARN">>, <<>>}

\* the number of events of this module and level among those the harvester
\* retrieves under cfg
RetrievedCount(cfg, module, level) ==
    LogLen(SelectSeq(HarvestRecent(logs, cfg, now),
                     LAMBDA r : r.module = module /\ UpperWord(r.level) = level))

\* C29: every rule a harvest run inserts is tagged with a module and a level
\* such that the level, in upper case, is one of the configured levels in
\* upper case, and the retrieved events of that module and level number at
\* least min_count.
C29_HarvestedKeysAreAllowedAndFrequent ==
    \A mc \in MinCountInputs, levels \in IncludeLevelsInputs :
        LET cfg == [auto_cfg EXCEPT !.enabled = TRUE, !.min_count = mc,
                                    !.include_levels = levels]
            h == Harvest(by_id, id_by_fp, uuids, cfg, logs, gauges, now)
        IN \A k \in DOMAIN h.by \ DOMAIN by_id :
            LET module == h.by[k].tags[1][1]
                level == h.by[k].tags[2][1]
            IN /\ h.by[k].status = "draft"
               /\ level \in {UpperWord(l) : l \in SeqToSet(levels)}
               /\ RetrievedCount(cfg, module, level) >= mc

\* C29: the harvester retrieves 25 WARN events of module memory and INFO events
\* of module http; with min_count 3 and the levels info and WARN a run inserts a
\* rule for each, with min_count 26 and the default levels none, and with
\* min_count 3 and the default levels the rule of memory alone.
C29_Witness ==
    /\ RetrievedCount(auto_cfg, "memory", "WARN") = 25
    /\ RetrievedCount(auto_cfg, "http", "INFO") >= 25
    /\ LET both == Harvest(by_id, id_by_fp, uuids,
                           [auto_cfg EXCEPT !.enabled = TRUE, !.min_count = 3,
                                            !.include_levels = <<"info", "WARN">>],
                           logs, gauges, now)
           none == Harvest(by_id, id_by_fp, uuids,
                           [auto_cfg EXCEPT !.enabled = TRUE, !.min_count = 26,
                                            !.include_levels = <<"ERROR", "WARN">>],
                           logs, gauges, now)
           one == Harvest(by_id, id_by_fp, uuids,
                          [auto_cfg EXCEPT !.enabled = TRUE, !.min_count = 3,
                                           !.include_levels = <<"ERROR", "WARN">>],
                          logs, gauges, now)
       IN /\ Cardinality(DOMAIN both.by \ DOMAIN by_id) = 2
          /\ none.path = "run" /\ none.by = by_id
          /\ Cardinality(DOMAIN one.by \ DOMAIN by_id) = 1
          /\ \A k \in DOMAIN one.by \ DOMAIN by_id :
                one.by[k].tags = <<<<"memory">>, <<"WARN">>, <<"auto">>>>

-----------------------------------------------------------------------------
(* The count a harvest call returns: SpecInterleaved. *)

\* C30: the created a harvest call returns is the number of rules the call
\* put into the store (an add answered with a rule already stored is not
\* counted), whatever other operations on the store ran between the store
\* calls of the harvest call.
C30_CreatedCountsOwnInserts ==
    \A c \in Calls :
        harvesting[c].pc = "returned" => harvesting[c].created = harvesting[c].inserted

\* as long as no other operation changes the store between the count of drafts
\* before an add and the count after it, created follows the rules the call
\* has put in: checked on the harvest taken whole
C30_CreatedCountsInsertsWhenAlone ==
    \A cfg \in {auto_cfg, [auto_cfg EXCEPT !.enabled = TRUE]} :
        LET h == Harvest(by_id, id_by_fp, uuids, cfg, logs, gauges, now)
        IN h.path = "run" => h.created = h.uuids - uuids
-----------------------------------------------------------------------------
(* Harvest calls side by side: SpecConcurrent. *)

\* C31: when harvest calls run side by side, their reads of the log ring and
\* their store calls interleaved in any order, the store never holds two rules
\* of one harvested fingerprint.
C31_OneRulePerHarvestedFingerprint ==
    \A k1 \in DOMAIN by_id, k2 \in DOMAIN by_id :
        by_id[k1].fingerprint = by_id[k2].fingerprint => k1 = k2

\* two calls have read the same config and the same events; the first has
\* stored the rule of a key, and the add of the second, made before the first
\* counted its drafts again, was answered with that rule
C31_Witness ==
    /\ harvesting[1].pc = "after" /\ harvesting[2].pc = "after"
    /\ harvesting[1].cfg = harvesting[2].cfg
    /\ harvesting[1].ordered = harvesting[2].ordered
    /\ harvesting[1].inserted = 1 /\ harvesting[2].inserted = 0
    /\ Cardinality(DOMAIN by_id) = 1
-----------------------------------------------------------------------------
(* The sample of the harvester: SpecHarvest. *)

\* the events of the ring inside the window of a config
WindowEvents(cfg) ==
    SelectSeq(logs, LAMBDA r : r.ts >= now - Max(1, OrInt(cfg.since_seconds, 900)))

\* C32: the sample of the harvester is every event of the ring inside the
\* configured window, up to a ceiling of 1000 events: when the window holds
\* n <= 1000 events, the count compared with min_samples is n (the run is
\* skipped for want of samples exactly when n is below min_samples), and the
\* count of every module and level is taken over all n events.
C32_SampleIsWholeWindowUpToCeiling ==
    \A ms \in {1, 20, 201} :
        LET cfg == [auto_cfg EXCEPT !.enabled = TRUE, !.min_samples = ms]
            window == WindowEvents(cfg)
            n == LogLen(window)
            h == Harvest(by_id, id_by_fp, uuids, cfg, logs, gauges, now)
        IN n <= HarvestLimit =>
              /\ LogLen(HarvestRecent(logs, cfg, now)) = n
              /\ (h.path = "insufficient_samples") = (n < Max(1, ms))
              /\ \A i \in 1..Len(window) :
                    RetrievedCount(cfg, window[i].module, UpperWord(window[i].level))
                      = LogLen(SelectSeq(window,
                                 LAMBDA r : /\ r.module = window[i].module
                                            /\ UpperWord(r.level) = UpperWord(window[i].level)))
-----------------------------------------------------------------------------
(* The index after an update: Spec. *)

\* C33, as stated: after a successful update(id, patch) the index maps the
\* recomputed fingerprint of the rule to id, and the entry of the fingerprint
\* the rule had before the update is still there and still maps to id.
C33_UpdateLeavesPriorEntryMappingToId ==
    \A id \in DOMAIN by_id, patch \in StorePatches :
        LET r == StoreUpdate(by_id, id_by_fp, id, patch, now)
            before == by_id[id].fingerprint
        IN ~r.raised =>
              /\ r.idx[r.ret[1].fingerprint] = id
              /\ before \in DOMAIN r.idx
              /\ r.idx[before] = id

\* C33, amended: after a successful update(id, patch) the index maps the
\* recomputed fingerprint of the rule to id and every other entry is as it
\* was: the entry of the fingerprint the rule had before is neither removed
\* nor changed, so it still maps to id when it did before the update (an add
\* without dedup or a delete of a rule of the same fingerprint may have pointed
\* it elsewhere or removed it).
C33_UpdateLeavesOtherEntriesAsTheyWere ==
    \A id \in DOMAIN by_id, patch \in StorePatches :
        LET r == StoreUpdate(by_id, id_by_fp, id, patch, now)
            data == Patched(by_id[id], patch)
            fp == make_fingerprint(data.title, data.content)
        IN ~r.raised =>
              /\ r.ret[1].fingerprint = fp
              /\ r.idx[fp] = id
              /\ \A f \in DOMAIN id_by_fp \ {fp} : f \in DOMAIN r.idx /\ r.idx[f] = id_by_fp[f]
              /\ DOMAIN r.idx = DOMAIN id_by_fp \cup {fp}

\* the update of a stored rule changes its fingerprint, and the entry of the
\* fingerprint it had, which an add without dedup has pointed at another rule,
\* is left pointing there
C33_Witness ==
    \E id \in DOMAIN by_id :
        LET r == StoreUpdate(by_id, id_by_fp, id, [title |-> <<<<"b">>>>], now)
            before == by_id[id].fingerprint
        IN /\ ~r.raised
           /\ r.ret[1].fingerprint # before
           /\ r.idx[r.ret[1].fingerprint] = id
           /\ before \in DOMAIN r.idx
           /\ r.idx[before] # id
           /\ r.idx[before] = id_by_fp[before]
-----------------------------------------------------------------------------
(* The index and the identity map: Spec. *)

\* C34: after any sequence of adds, updates and deletes every entry of the
\* fingerprint index names an identifier that the identity map holds, so an
\* add with dedup enabled never fails on its lookup in the index.
C34_IndexNamesStoredRules ==
    /\ \A fp \in DOMAIN id_by_fp : id_by_fp[fp] \in DOMAIN by_id
    /\ \A rule \in StoreRules, upsert \in BOOLEAN :
            ~StoreAdd(by_id, id_by_fp, rule, TRUE, upsert, <<"u", uuids + 1>>, now).raised
-----------------------------------------------------------------------------
(* The identifier of a stored rule: Spec. *)

\* patches that name the identifier: data.update(patch) takes every field
IdPatches == [{"id"} -> {<<i>> : i \in SuppliedIds \cup {<<"u", uuids + 1>>}}]

\* C35: in every reachable state each entry of the identity map is keyed by
\* the identifier the rule itself holds, and no update, whatever fields its
\* patch names, changes the identifier of a stored rule.
C35_KeyIsIdentifierOfRule ==
    /\ \A k \in DOMAIN by_id : by_id[k].id = k
    /\ \A id \in DOMAIN by_id, patch \in StorePatches \cup IdPatches :
          LET r == StoreUpdate(by_id, id_by_fp, id, patch, now)
          IN ~r.raised =>
                /\ r.ret[1].id = id
                /\ \A k \in DOMAIN r.by : r.by[k].id = k

\* the same for the patches that name no identifier
C35_KeyIsIdentifierWhenPatchNamesNone ==
    /\ \A k \in DOMAIN by_id : by_id[k].id = k
    /\ \A id \in DOMAIN by_id, patch \in StorePatches :
          LET r == StoreUpdate(by_id, id_by_fp, id, patch, now)
          IN ~r.raised => \A k \in DOMAIN r.by : r.by[k].id = k
-----------------------------------------------------------------------------
(* The creation timestamp of a stored identifier: Spec. *)

\* whether every identifier of the store by that the store after still holds
\* has the creation timestamp it had
KeepsCreatedAt(by, after) ==
    \A k \in DOMAIN by \cap DOMAIN after : after[k].created_at = by[k].created_at

\* C36: the creation timestamp of a stored identifier never changes while the
\* identifier stays in the store: not by an add, with or without upsert, and
\* not by an update (approve and reject are updates of the status).
C36_CreatedAtNeverChanges ==
    /\ \A rule \in Replacements \cup StoreRules, dedup \in BOOLEAN, upsert \in BOOLEAN :
          LET a == StoreAdd(by_id, id_by_fp, rule, dedup, upsert, <<"u", uuids + 1>>,
                            now + ClockStep)
          IN KeepsCreatedAt(by_id, a.by)
    /\ \A id \in DOMAIN by_id,
          patch \in StorePatches \cup [{"status"} -> {<<"active">>, <<"deprecated">>}] :
          KeepsCreatedAt(by_id, StoreUpdate(by_id, id_by_fp, id, patch, now + ClockStep).by)

\* the same without the adds that are not upserts
C36_CreatedAtKeptByUpsertAndUpdate ==
    /\ \A rule \in Replacements \cup StoreRules, dedup \in BOOLEAN :
          LET a == StoreAdd(by_id, id_by_fp, rule, dedup, TRUE, <<"u", uuids + 1>>,
                            now + ClockStep)
          IN KeepsCreatedAt(by_id, a.by)
    /\ \A id \in DOMAIN by_id,
          patch \in StorePatches \cup [{"status"} -> {<<"active">>, <<"deprecated">>}] :
          KeepsCreatedAt(by_id, StoreUpdate(by_id, id_by_fp, id, patch, now + ClockStep).by)
-----------------------------------------------------------------------------
(* Threads that step a counter: SpecCounters. *)

\* C38: when several threads call inc on one counter side by side, no step is
\* lost: once n calls inc(name, 1) have returned, the counter has grown by n.
C38_NoIncrementIsLost ==
    (\A t \in Threads : threads[t].pc = "idle") =>
        \A name \in CounterNames :
            Gauge(counters, name) = threads[1].done + threads[2].done
-----------------------------------------------------------------------------
(* Threads that update one rule: SpecUpdaters. *)

\* C37: two updates of one identifier that run side by side both take effect.
\* Each update writes the rule that is in the store when it writes, with the
\* fields its patch names set to the values of the patch and every other
\* field (but updated_at and the fingerprint) as it is: an update never writes
\* back a value that the other has replaced since.  So after two updates whose
\* patches name different fields the rule carries both values, and when the
\* patches name the same field the rule carries the value of the later one.
C37_ConcurrentUpdatesBothTakeEffect ==
    [][\A t \in Threads :
          (threads[t].pc = "read" /\ threads'[t].pc = "written") =>
              LET id == threads[t].id
                  patch == threads[t].patch[1]
              IN \A f \in DOMAIN by_id[id] \ {"updated_at", "fingerprint"} :
                    by_id'[id][f] = IF f \in DOMAIN patch /\ patch[f] # None
                                    THEN patch[f][1] ELSE by_id[id][f]]_vars

\* two threads have each updated the rule u1, stored with the title "a" and
\* the status "active": one the title, the other the status, and the rule
\* carries both values
C37_Witness ==
    /\ threads[1].pc = "returned" /\ threads[2].pc = "returned"
    /\ threads[1].done = 1 /\ threads[2].done = 1
    /\ DOMAIN by_id = {<<"u", 1>>}
    /\ by_id[<<"u", 1>>].title = <<"b">>
    /\ by_id[<<"u", 1>>].status = "deprecated"
-----------------------------------------------------------------------------
(* Threads that append to the log ring: SpecAppenders. *)

\* how many times the ring holds the event e
CountOf(buf, e) == LogLen(SelectSeq(buf, LAMBDA r : SameEvent(r, e)))

\* C39: when several threads append to the log ring side by side, the ring
\* never holds more events than its capacity, and the append of a thread puts
\* its event into the ring exactly once and takes nothing out but, when the
\* ring was full, the oldest event: every other event is in the ring as often
\* as before.
C39_AppendsNeitherLostNorDoubled ==
    [][/\ LogLen(logs') <= LogMaxLen
       /\ \A t \in Threads :
            (threads[t].pc = "built" /\ threads'[t].pc = "idle") =>
                LET e == threads[t].event[1]
                    full == LogLen(logs) = LogMaxLen
                    oldest == logs[1]
                IN /\ LogLen(logs') = IF full THEN LogMaxLen ELSE LogLen(logs) + 1
                   /\ SameEvent(logs'[Len(logs')], e)
                   /\ \A i \in 1..Len(logs') :
                        CountOf(logs', logs'[i])
                          = CountOf(logs, logs'[i])
                            + (IF SameEvent(logs'[i], e) THEN 1 ELSE 0)
                            - (IF full /\ SameEvent(oldest, logs'[i]) THEN 1 ELSE 0)
                   /\ \A i \in 1..Len(logs) :
                        CountOf(logs', logs[i])
                          = CountOf(logs, logs[i])
                            + (IF SameEvent(logs[i], e) THEN 1 ELSE 0)
                            - (IF full /\ SameEvent(oldest, logs[i]) THEN 1 ELSE 0)]_vars

\* the ring is full; thread 2 has appended its event, which is in the ring
\* once, while thread 1 had built its own and not yet appended it
C39_Witness ==
    /\ LogLen(logs) = LogMaxLen
    /\ threads[1].pc = "built"
    /\ threads[2].done = 1
    /\ CountOf(logs, [level |-> "WARN", module |-> "memory",
                      message |-> "memory commit blocked (sleeping)",
                      tags |-> <<"tid2">>, created |-> 0, ts |-> now]) = 1
    /\ logs[Len(logs)].tags = <<"tid2">>
-----------------------------------------------------------------------------
(* The trend tile of the dashboard: SpecHarvest. *)

\* how many harvest events the trend tile takes
TrendLength == 20

RECURSIVE CreatedOf(_)
\* the created values of run-length encoded events, one per event
CreatedOf(runs) ==
    IF runs = <<>> THEN <<>>
    ELSE [i \in 1..Head(runs).n |-> Head(runs).created] \o CreatedOf(Tail(runs))

\* the tile auto_candidate_trend of dashboard_overview: the harvest events
\* among those retrieved, newest first; harvest_events[-20:], which are the
\* last twenty of that list; reversed
DashboardTrend(buf, t) ==
    LET recent_logs == LogSearch(buf, "", None, DashboardWindow, DashboardLimit, t)
        harvest_events ==
            SelectSeq(recent_logs,
                      LAMBDA r : r.message \in {"auto_candidate_harvest",
                                                "auto candidate harvested"})
    IN CreatedOf(TakeEvents(Reverse(harvest_events), TrendLength))

\* one more harvest call under the config cfg: the state it leaves, the created
\* values returned so far, and whether each call went through to its log event
HarvestOnce(cfg, st) ==
    LET h == Harvest(st.by, st.idx, st.uuids, cfg, st.logs, st.gauges, now)
    IN [by |-> h.by, idx |-> h.idx, uuids |-> h.uuids, logs |-> h.logs,
        gauges |-> h.gauges, rets |-> Append(st.rets, h.created),
        allrun |-> st.allrun /\ h.path = "run"]

RECURSIVE HarvestTimes(_, _, _)
\* k harvest calls in a row
HarvestTimes(k, cfg, st) ==
    IF k = 0 THEN st
    ELSE CHOOSE r \in {HarvestTimes(k - 1, cfg, x) : x \in {HarvestOnce(cfg, st)}} : TRUE

\* the last m entries of a sequence
LastOf(s, m) == IF Len(s) <= m THEN s ELSE SubSeq(s, Len(s) - m + 1, Len(s))

\* C40: the tile auto_candidate_trend lists the created values of the most
\* recent harvest runs, at most 20 of them, the earliest first: after k runs
\* that went through, in a ring that held no harvest event before, the tile is
\* the created values of the last 20 of them in the order of the runs.
C40_TrendListsMostRecentRuns ==
    \A k \in {1, TrendLength, TrendLength + 1} :
        LET cfg == [auto_cfg EXCEPT !.enabled = TRUE]
            st == HarvestTimes(k, cfg,
                     [by |-> by_id, idx |-> id_by_fp, uuids |-> uuids, logs |-> logs,
                      gauges |-> gauges, rets |-> <<>>, allrun |-> TRUE])
        IN (st.allrun /\ DashboardTrend(logs, now) = <<>> /\ st.uuids <= MaxUuids) =>
              DashboardTrend(st.logs, now) = LastOf(st.rets, TrendLength)

\* the same for at most 20 runs
C40_TrendListsRunsUpToTwenty ==
    \A k \in {1, TrendLength} :
        LET cfg == [auto_cfg EXCEPT !.enabled = TRUE]
            st == HarvestTimes(k, cfg,
                     [by |-> by_id, idx |-> id_by_fp, uuids |-> uuids, logs |-> logs,
                      gauges |-> gauges, rets |-> <<>>, allrun |-> TRUE])
        IN (st.allrun /\ DashboardTrend(logs, now) = <<>> /\ st.uuids <= MaxUuids) =>
              DashboardTrend(st.logs, now) = LastOf(st.rets, TrendLength)
====
